---- MODULE Spec2Model ----
(***************************************************************************)
(* Model of the semantic-retrieval layer of family-knowledge-mgr:          *)
(*   ai_integration/services/embedding_service.py  (EmbeddingService)      *)
(*   ai_integration/services/search_service.py     (SearchService)         *)
(*   ai_integration/signals.py                     (post_save hooks)       *)
(*   ai_integration/models.py                      (EmbeddingCache)        *)
(*                                                                         *)
(*   ai_integration/services/rag_service.py        (RAGService)            *)
(*   ai_integration/views.py                       (chat_endpoint)         *)
(*                                                                         *)
(* Texts are sequences of one-character strings.  Vectors are abstracted   *)
(* to NumVec directions spread evenly over a half turn; None is -1.        *)
(* Similarities are percentages (-100..100), confidences are counted in    *)
(* units of 1/ConfidenceScale percent.                                     *)
(***************************************************************************)
EXTENDS Integers, Sequences, FiniteSets, TLC

VARIABLES recs, cache, now, last, procs

vars == <<recs, cache, now, last, procs>>

----------------------------------------------------------------------------
(* Bounds *)

\* number of distinct vectors the model distinguishes
NumVec == 4
\* number of distinct working embedding generators (api = 0 is a failing one)
NumGen == 1
\* largest clock value (timezone.now())
MaxClock == 2
\* number of concurrent request handlers
NumProcs == 2
\* largest result limit passed to the search operations
MaxLimit == 2
\* largest batch_size tried by bulk_update_embeddings
MaxBatch == 2
\* depth at which the save -> post_save -> save chain is cut (RecursionError)
HookDepthLimit == 3

None == -1

Vec == 0 .. (NumVec - 1)
Api == 0 .. NumGen

SEARCHABLE_MODELS == {"story", "event", "heritage", "health"}

\* the records of the sequential specification, the owners a direct
\* get_or_create_embedding call may name, and the records of the bulk one
RecKeys == {<<"story", 1>>}
\* a record of a model without a typed branch in _extract_content_text
PlainKeys == {<<"person", 1>>}
OwnerKeys == {<<"story", 1>>, <<"event", 1>>}
BulkKeys == {<<"story", 1>>, <<"story", 2>>}

\* the (title, body) pairs a record can be given
Contents == {<< << >>, << >> >>, << <<"a">>, << >> >>, << <<"a">>, <<"b">> >>}

----------------------------------------------------------------------------
(* Text helpers *)

IsSpace(c) == c \in {" ", "\n"}

RECURSIVE LStrip(_)
LStrip(s) == IF s = << >> THEN << >>
             ELSE IF IsSpace(Head(s)) THEN LStrip(Tail(s)) ELSE s

RECURSIVE RStrip(_)
RStrip(s) == IF s = << >> THEN << >>
             ELSE IF IsSpace(s[Len(s)]) THEN RStrip(SubSeq(s, 1, Len(s) - 1)) ELSE s

\* str.strip()
Strip(s) == RStrip(LStrip(s))

\* a test for the empty string only
IsBlankOnlyEmpty(s) == s = << >>

\* `not text or not text.strip()`
IsBlank(s) == s = << >> \/ Strip(s) = << >>

CharCode(c) == IF c = "a" THEN 1 ELSE IF c = "b" THEN 2 ELSE 0

RECURSIVE SumCodes(_)
SumCodes(s) == IF s = << >> THEN 0 ELSE CharCode(Head(s)) + SumCodes(Tail(s))

\* the external embedding API: generator k >= 1 maps a text to a vector
Embed(s, k) == (SumCodes(s) + (k - 1)) % NumVec

----------------------------------------------------------------------------
(* EmbeddingService *)

\* generate_embedding: [ret, called]; the API receives text.strip()
generate_embedding(text, api) ==
    IF IsBlank(text) THEN [ret |-> None, called |-> 0]
    ELSE IF api = 0 THEN [ret |-> None, called |-> 1]
    ELSE [ret |-> Embed(Strip(text), api), called |-> 1]

\* get_content_hash: SHA-256 of the exact text (injective on the model's texts)
get_content_hash(text) == <<"sha256", text>>

\* EmbeddingCache.objects.get(content_hash=h)
CacheRows(c, h) == {r \in c : r.content_hash = h}
CacheHas(c, h) == CacheRows(c, h) # {}
CacheGet(c, h) == CHOOSE r \in c : r.content_hash = h

\* EmbeddingCache.objects.update_or_create(content_hash=h, defaults=...)
UpdateOrCreateInsertOnly(c, h, ctype, cid, emb) ==
    c \cup {[content_hash |-> h, content_type |-> ctype,
             content_id |-> cid, embedding |-> emb]}

UpdateOrCreateKeyedByOwner(c, h, ctype, cid, emb) ==
    (c \ {r \in c : r.content_type = ctype /\ r.content_id = cid})
        \cup {[content_hash |-> h, content_type |-> ctype,
                content_id |-> cid, embedding |-> emb]}

UpdateOrCreate(c, h, ctype, cid, emb) ==
    (c \ CacheRows(c, h)) \cup {[content_hash |-> h, content_type |-> ctype,
                                 content_id |-> cid, embedding |-> emb]}

\* get_or_create_embedding on world w (recs, cache, counters): [w, ret]
GetOrCreateAlwaysWrites(w, api, text, ctype, cid) ==
    IF IsBlank(text) THEN [w |-> w, ret |-> None]
    ELSE LET h == get_content_hash(text) IN
         IF CacheHas(w.cache, h)
         THEN [w |-> w, ret |-> CacheGet(w.cache, h).embedding]
         ELSE LET g  == generate_embedding(text, api)
                  w1 == [w EXCEPT !.gens = @ + g.called]
              IN [w |-> [w1 EXCEPT !.cache = UpdateOrCreate(@, h, ctype, cid, g.ret),
                                   !.writes = @ + 1],
                  ret |-> g.ret]

GetOrCreateNoCacheRead(w, api, text, ctype, cid) ==
    IF IsBlank(text) THEN [w |-> w, ret |-> None]
    ELSE LET h  == get_content_hash(text)
             g  == generate_embedding(text, api)
             w1 == [w EXCEPT !.gens = @ + g.called]
         IN IF g.ret # None
            THEN [w |-> [w1 EXCEPT !.cache = UpdateOrCreate(@, h, ctype, cid, g.ret),
                                   !.writes = @ + 1],
                  ret |-> g.ret]
            ELSE [w |-> w1, ret |-> None]

get_or_create_embedding(w, api, text, ctype, cid) ==
    IF IsBlank(text) THEN [w |-> w, ret |-> None]
    ELSE LET h == get_content_hash(text) IN
         IF CacheHas(w.cache, h)
         THEN [w |-> w, ret |-> CacheGet(w.cache, h).embedding]
         ELSE LET g  == generate_embedding(text, api)
                  w1 == [w EXCEPT !.gens = @ + g.called]
              IN IF g.ret # None
                 THEN [w |-> [w1 EXCEPT !.cache = UpdateOrCreate(@, h, ctype, cid, g.ret),
                                        !.writes = @ + 1],
                       ret |-> g.ret]
                 ELSE [w |-> w1, ret |-> None]

\* _extract_content_text for the typed records: title/name, blank line, body
extract_content_text(ctype, inst) ==
    IF ctype \in SEARCHABLE_MODELS
    THEN inst.title \o <<"\n", "\n">> \o inst.body
    ELSE IF inst.body # << >> THEN inst.body ELSE inst.title

\* the up-to-date test of update_model_embedding (lines 118-126)
UpToDateNever(w, inst, text, force) == FALSE

UpToDate(w, inst, text, force) ==
    /\ ~force
    /\ inst.content_embedding # None
    /\ inst.embedding_updated # None
    /\ CacheHas(w.cache, get_content_hash(text))
    /\ CacheGet(w.cache, get_content_hash(text)).embedding = inst.content_embedding

RECURSIVE update_model_embedding(_, _, _, _, _)

\* the models signals.py registers a post_save receiver for
HookedModels == {"story", "event", "heritage", "health"}

\* a receiver without its try/except
post_save_uncaught(w, e, key, created, depth) ==
    IF key[1] \notin HookedModels THEN [w |-> w, exc |-> FALSE, ret |-> FALSE]
    ELSE LET r == update_model_embedding(w, e, key, created, depth)
         IN [w |-> r.w, exc |-> r.exc, ret |-> r.ret]

\* the post_save receivers of signals.py: update_model_embedding(instance,
\* force_update=created) inside try/except Exception, which only logs;
\* [w, exc, ret], ret being what update_model_embedding returned
post_save(w, e, key, created, depth) ==
    IF key[1] \notin HookedModels THEN [w |-> w, exc |-> FALSE, ret |-> FALSE]
    ELSE LET r == update_model_embedding(w, e, key, created, depth)
         IN [w |-> r.w, exc |-> FALSE, ret |-> r.ret]

\* a save whose receiver is told the row was created
SaveEmbeddingRefiresForced(w, e, key, emb, depth) ==
    IF key \in e.saveFail \/ depth >= HookDepthLimit
    THEN [w |-> [w EXCEPT !.raised = @ + 1], exc |-> TRUE]
    ELSE LET w1 == [w EXCEPT !.recs[key].content_embedding = emb,
                             !.recs[key].embedding_updated = e.now,
                             !.saves = @ + 1]
             h  == post_save(w1, e, key, TRUE, depth + 1)
         IN [w |-> h.w, exc |-> h.exc]

\* instance.save(update_fields=[...]): the row is written and post_save fires
\* with created=False: [w, exc]
SaveEmbedding(w, e, key, emb, depth) ==
    IF key \in e.saveFail \/ depth >= HookDepthLimit
    THEN [w |-> [w EXCEPT !.raised = @ + 1], exc |-> TRUE]
    ELSE LET w1 == [w EXCEPT !.recs[key].content_embedding = emb,
                             !.recs[key].embedding_updated = e.now,
                             !.saves = @ + 1]
             h  == post_save(w1, e, key, FALSE, depth + 1)
         IN [w |-> h.w, exc |-> h.exc]

\* update_model_embedding(instance, force_update): [w, ret, exc]
update_model_embedding(w, e, key, force, depth) ==
    LET inst == w.recs[key]
        w0   == [w EXCEPT !.upds = @ + 1]
        text == extract_content_text(key[1], inst)
    IN IF text = << >> THEN [w |-> w0, ret |-> FALSE, exc |-> FALSE]
       ELSE IF UpToDate(w0, inst, text, force)
       THEN [w |-> w0, ret |-> FALSE, exc |-> FALSE]
       ELSE LET r == get_or_create_embedding(w0, e.api, text, key[1], key[2]) IN
            IF r.ret # None
            THEN LET s == SaveEmbedding(r.w, e, key, r.ret, depth)
                 IN [w |-> s.w, ret |-> ~s.exc, exc |-> s.exc]
            ELSE [w |-> r.w, ret |-> FALSE, exc |-> FALSE]

----------------------------------------------------------------------------
(* bulk_update_embeddings *)

NeedsEmbedding(rs, ctype) ==
    {k \in DOMAIN rs : /\ k[1] = ctype
                       /\ (rs[k].content_embedding = None \/ rs[k].embedding_updated = None)}

\* the queryset's order (Meta.ordering = ['-created_at']): newest id first
RECURSIVE QuerySetOrder(_)
QuerySetOrder(ks) ==
    IF ks = {} THEN << >>
    ELSE LET k == CHOOSE x \in ks : \A y \in ks : y[2] <= x[2]
         IN <<k>> \o QuerySetOrder(ks \ {k})

\* seq[i:j] of Python (0-based, end exclusive)
Slice(seq, i, j) ==
    LET lo == IF i < Len(seq) THEN i + 1 ELSE Len(seq) + 1
        hi == IF j < Len(seq) THEN j ELSE Len(seq)
    IN SubSeq(seq, lo, hi)

\* the body of `for instance in batch` over the rows fetched for one slice
RECURSIVE BatchLoop(_, _, _)
BatchLoop(b, e, batch) ==
    IF batch = << >> THEN b
    ELSE LET r  == update_model_embedding(b.w, e, Head(batch), FALSE, 0)
             b1 == [w         |-> r.w,
                    updated   |-> b.updated + (IF ~r.exc /\ r.ret THEN 1 ELSE 0),
                    skipped   |-> b.skipped + (IF ~r.exc /\ ~r.ret THEN 1 ELSE 0),
                    failed    |-> b.failed + (IF r.exc THEN 1 ELSE 0),
                    processed |-> Append(b.processed, Head(batch))]
         IN BatchLoop(b1, e, Tail(batch))

\* `for i in range(0, total, batch_size)`: the lazy queryset is sliced (and so
\* re-evaluated against the current rows) once per batch
RECURSIVE BulkLoop(_, _, _, _, _, _)
BulkLoop(b, e, ctype, i, total, bs) ==
    IF i >= total THEN b
    ELSE LET instances == QuerySetOrder(NeedsEmbedding(b.w.recs, ctype))
             batch     == Slice(instances, i, i + bs)
         IN BulkLoop(BatchLoop(b, e, batch), e, ctype, i + bs, total, bs)

bulk_update_embeddings(w, e, ctype, bs) ==
    LET total == Cardinality(NeedsEmbedding(w.recs, ctype))
        b0    == [w |-> w, updated |-> 0, skipped |-> 0, failed |-> 0,
                  processed |-> << >>]
    IN BulkLoop(b0, e, ctype, 0, total, bs)

----------------------------------------------------------------------------
(* State *)

AllTexts == {c[1] \o <<"\n", "\n">> \o c[2] : c \in Contents}

World == [recs |-> recs, cache |-> cache, gens |-> 0, writes |-> 0,
          saves |-> 0, upds |-> 0, raised |-> 0]

Env(api, sf) == [api |-> api, now |-> now, saveFail |-> sf]

NoStats == [updated |-> 0, skipped |-> 0, failed |-> 0]

\* what the last operation was called with and what it returned / did;
\* flip alternates with every operation, again tells that the operation
\* before it was the same call (same operation, arguments and generator)
NoOp == [op |-> "none", flip |-> 0, again |-> FALSE, key |-> <<"none", 0>>, text |-> << >>,
         force |-> FALSE, api |-> 0, ret |-> None, exc |-> FALSE,
         gens |-> 0, writes |-> 0, saves |-> 0, upds |-> 0, raised |-> 0,
         sf |-> {}, stats |-> NoStats, processed |-> << >>, needed |-> {},
         types |-> << >>, limit |-> 0, thr |-> 0, fails |-> {}, ord |-> "asc",
         res |-> << >>, merged |-> << >>, queries |-> 0]

Observe(op, key, text, force, api, ret, exc, w) ==
    [NoOp EXCEPT !.op = op, !.flip = 1 - last.flip,
                 !.again = (last.op = op /\ last.key = key /\ last.text = text
                            /\ last.force = force /\ last.api = api),
                 !.key = key, !.text = text,
                 !.force = force, !.api = api, !.ret = ret, !.exc = exc,
                 !.gens = w.gens, !.writes = w.writes, !.saves = w.saves,
                 !.upds = w.upds, !.raised = w.raised]

BoolRet(b) == IF b THEN 1 ELSE 0

\* ids are handed out in creation order (AutoField)
NextId(ctype) == Cardinality({k \in DOMAIN recs : k[1] = ctype}) + 1

NewRecord(title, body) ==
    [title |-> title, body |-> body, content_embedding |-> None,
     embedding_updated |-> None]

Init ==
    /\ recs = << >>
    /\ cache = {}
    /\ now = 1
    /\ last = NoOp
    /\ procs = << >>

----------------------------------------------------------------------------
(* Operations of the sequential specifications *)

\* Model.objects.create(...): the row is written, then post_save fires the
\* receiver with created=True, i.e. update_model_embedding(force_update=True)
CreateRecord(key, title, body, api, sf) ==
    LET w1 == [World EXCEPT !.recs = (key :> NewRecord(title, body)) @@ recs]
        r  == post_save(w1, Env(api, sf), key, TRUE, 0)
    IN /\ key[2] = NextId(key[1])
       /\ recs' = r.w.recs
       /\ cache' = r.w.cache
       /\ last' = [Observe("create", key, extract_content_text(key[1], w1.recs[key]),
                           TRUE, api, BoolRet(r.ret), r.exc, r.w) EXCEPT !.sf = sf]
       /\ UNCHANGED <<now, procs>>

\* the text of an existing record is edited and the record saved: post_save
\* fires the receiver with created=False
EditSave(key, title, body, api, sf) ==
    LET w1 == [World EXCEPT !.recs[key].title = title, !.recs[key].body = body]
        r  == post_save(w1, Env(api, sf), key, FALSE, 0)
    IN /\ key \in DOMAIN recs
       /\ recs' = r.w.recs
       /\ cache' = r.w.cache
       /\ last' = [Observe("edit", key, extract_content_text(key[1], w1.recs[key]),
                           FALSE, api, BoolRet(r.ret), r.exc, r.w) EXCEPT !.sf = sf]
       /\ UNCHANGED <<now, procs>>

\* a direct call of update_model_embedding(instance, force_update)
UpdateRecord(key, force, api, sf) ==
    LET r == update_model_embedding(World, Env(api, sf), key, force, 0)
    IN /\ key \in DOMAIN recs
       /\ recs' = r.w.recs
       /\ cache' = r.w.cache
       /\ last' = [Observe("update", key, extract_content_text(key[1], recs[key]),
                           force, api, BoolRet(r.ret), r.exc, r.w) EXCEPT !.sf = sf]
       /\ UNCHANGED <<now, procs>>

\* a direct call of get_or_create_embedding(text, content_type, content_id)
GetOrCreate(text, key, api) ==
    LET r == get_or_create_embedding(World, api, text, key[1], key[2])
    IN /\ recs' = r.w.recs
       /\ cache' = r.w.cache
       /\ last' = Observe("get_or_create", key, text, FALSE, api, r.ret, FALSE, r.w)
       /\ UNCHANGED <<now, procs>>

\* bulk_update_embeddings(model_class, batch_size)
BulkUpdate(ctype, bs, api, sf) ==
    LET b == bulk_update_embeddings(World, Env(api, sf), ctype, bs)
    IN /\ recs' = b.w.recs
       /\ cache' = b.w.cache
       /\ last' = [Observe("bulk", <<ctype, bs>>, << >>, FALSE, api, None, FALSE, b.w)
                     EXCEPT !.stats = [updated |-> b.updated, skipped |-> b.skipped,
                                       failed |-> b.failed],
                            !.processed = b.processed,
                            !.sf = sf,
                            !.needed = NeedsEmbedding(recs, ctype)]
       /\ UNCHANGED <<now, procs>>

\* time passes
Tick ==
    /\ now < MaxClock
    /\ now' = now + 1
    /\ UNCHANGED <<recs, cache, last, procs>>

Next ==
    \/ \E k \in RecKeys, c \in Contents, api \in Api :
          \E sf \in {{}, {k}} : CreateRecord(k, c[1], c[2], api, sf)
    \/ \E k \in RecKeys, c \in Contents, api \in Api :
          \E sf \in {{}, {k}} : EditSave(k, c[1], c[2], api, sf)
    \/ \E k \in RecKeys, f \in BOOLEAN, api \in Api :
          \E sf \in {{}, {k}} : UpdateRecord(k, f, api, sf)
    \/ \E text \in AllTexts \cup {<< >>}, k \in OwnerKeys, api \in Api :
          GetOrCreate(text, k, api)
    \/ Tick

Spec == Init /\ [][Next]_vars

\* one record, of a typed model or of a model without a typed branch, is
\* created, edited and updated
NextRecord ==
    \/ \E k \in RecKeys \cup PlainKeys, c \in Contents, api \in Api :
          \E sf \in {{}, {k}} : DOMAIN recs = {} /\ CreateRecord(k, c[1], c[2], api, sf)
    \/ \E k \in RecKeys \cup PlainKeys, c \in Contents, api \in Api :
          \E sf \in {{}, {k}} : EditSave(k, c[1], c[2], api, sf)
    \/ \E k \in RecKeys \cup PlainKeys, f \in BOOLEAN, api \in Api :
          \E sf \in {{}, {k}} : UpdateRecord(k, f, api, sf)
    \/ Tick

SpecRecord == Init /\ [][NextRecord]_vars

\* records are created and edited, and bulk_update_embeddings is run
NextBulk ==
    \/ \E k \in BulkKeys, c \in Contents, api \in Api :
          CreateRecord(k, c[1], c[2], api, {})
    \/ \E k \in BulkKeys, c \in Contents, api \in Api :
          EditSave(k, c[1], c[2], api, {})
    \/ \E ctype \in {k[1] : k \in BulkKeys}, bs \in 1 .. MaxBatch, api \in Api :
          \E sf \in {{}} \cup {{k} : k \in BulkKeys} : BulkUpdate(ctype, bs, api, sf)

SpecBulk == Init /\ [][NextBulk]_vars

\* three stories saved while no embedding could be stored for them
Bulk3Keys == {<<"story", 1>>, <<"story", 2>>, <<"story", 3>>}

InitBulk3 ==
    /\ recs \in [Bulk3Keys -> {NewRecord(c[1], c[2]) : c \in Contents}]
    /\ cache = {}
    /\ now = 1
    /\ last = NoOp
    /\ procs = << >>

\* bulk_update_embeddings is run over them, the save of one record failing
NextBulk3 ==
    \E bs \in 1 .. MaxBatch, api \in Api :
        \E sf \in {{}} \cup {{k} : k \in Bulk3Keys} : BulkUpdate("story", bs, api, sf)

SpecBulk3 == InitBulk3 /\ [][NextBulk3]_vars

----------------------------------------------------------------------------
(* Concurrent requests: get_or_create_embedding and update_model_embedding  *)
(* executed statement by statement by NumProcs request handlers            *)

Pids == 1 .. NumProcs

NoInst == [content_embedding |-> None, embedding_updated |-> None]

Idle == [pc |-> "idle", kind |-> "none", key |-> <<"none", 0>>, text |-> << >>,
         force |-> FALSE, inst |-> NoInst, missed |-> FALSE, emb |-> None,
         ret |-> None]

\* a request has returned ret; the handler can take the next request
Finished(pr, ret) == [pr EXCEPT !.pc = "done", !.ret = ret]

Free(p) == procs[p].pc \in {"idle", "done"}

InitConc ==
    /\ recs = (<<"story", 1>> :> NewRecord(<<"a">>, << >>))
    /\ cache = {}
    /\ now = 1
    /\ last = NoOp
    /\ procs = [p \in Pids |-> Idle]

\* get_or_create_embedding is entered (lines 67-70)
CallGetOrCreate(p, text, key) ==
    /\ Free(p)
    /\ procs' = [procs EXCEPT ![p] =
                    LET pr == [Idle EXCEPT !.pc = "lookup", !.kind = "get_or_create",
                                           !.key = key, !.text = text]
                    IN IF IsBlank(text) THEN Finished(pr, None) ELSE pr]
    /\ UNCHANGED <<recs, cache, now, last>>

\* update_model_embedding is entered: the instance is read, its text is
\* extracted and the up-to-date test is made (lines 107-126)
CallUpdate(p, key, force) ==
    LET inst == recs[key]
        text == extract_content_text(key[1], inst)
        pr   == [Idle EXCEPT !.pc = "lookup", !.kind = "update",
                             !.key = key, !.text = text, !.force = force,
                             !.inst = [content_embedding |-> inst.content_embedding,
                                       embedding_updated |-> inst.embedding_updated]]
    IN /\ Free(p)
       /\ key \in DOMAIN recs
       /\ procs' = [procs EXCEPT ![p] =
                       IF text = << >> \/ UpToDate(World, inst, text, force)
                       THEN Finished(pr, 0)
                       ELSE IF IsBlank(text) THEN Finished(pr, 0)
                       ELSE pr]
       /\ UNCHANGED <<recs, cache, now, last>>

\* EmbeddingCache.objects.get(content_hash=...) (lines 73-78)
Lookup(p) ==
    LET pr == procs[p]
        h  == get_content_hash(pr.text)
    IN /\ pr.pc = "lookup"
       /\ IF CacheHas(cache, h)
          THEN LET e == CacheGet(cache, h).embedding
               IN procs' = [procs EXCEPT ![p] =
                               IF pr.kind = "update"
                               THEN [pr EXCEPT !.pc = "save", !.emb = e]
                               ELSE Finished(pr, e)]
          ELSE procs' = [procs EXCEPT ![p].pc = "generate", ![p].missed = TRUE]
       /\ UNCHANGED <<recs, cache, now, last>>

\* self.generate_embedding(text) (line 81)
Generate(p, api) ==
    LET pr == procs[p]
        g  == generate_embedding(pr.text, api)
    IN /\ pr.pc = "generate"
       /\ procs' = [procs EXCEPT ![p] =
                       IF g.ret # None THEN [pr EXCEPT !.pc = "upsert", !.emb = g.ret]
                       ELSE Finished(pr, IF pr.kind = "update" THEN 0 ELSE None)]
       /\ UNCHANGED <<recs, cache, now, last>>

\* EmbeddingCache.objects.update_or_create(...) (lines 84-94)
Upsert(p) ==
    LET pr == procs[p]
    IN /\ pr.pc = "upsert"
       /\ cache' = UpdateOrCreate(cache, get_content_hash(pr.text),
                                  pr.key[1], pr.key[2], pr.emb)
       /\ procs' = [procs EXCEPT ![p] =
                       IF pr.kind = "update" THEN [pr EXCEPT !.pc = "save"]
                       ELSE Finished(pr, pr.emb)]
       /\ UNCHANGED <<recs, now, last>>

\* instance.save(update_fields=...) with its post_save receiver (lines 132-137)
Save(p, api) ==
    LET pr == procs[p]
        s  == SaveEmbedding(World, Env(api, {}), pr.key, pr.emb, 0)
    IN /\ pr.pc = "save"
       /\ recs' = s.w.recs
       /\ cache' = s.w.cache
       /\ procs' = [procs EXCEPT ![p] = Finished(pr, 1)]
       /\ UNCHANGED <<now, last>>

NextConc ==
    \/ \E p \in Pids, text \in AllTexts, k \in OwnerKeys : CallGetOrCreate(p, text, k)
    \/ \E p \in Pids, k \in RecKeys, f \in BOOLEAN : CallUpdate(p, k, f)
    \/ \E p \in Pids : Lookup(p)
    \/ \E p \in Pids, api \in Api : Generate(p, api)
    \/ \E p \in Pids : Upsert(p)
    \/ \E p \in Pids, api \in Api : Save(p, api)

SpecConc == InitConc /\ [][NextConc]_vars

----------------------------------------------------------------------------
(* SearchService *)

\* dict order of SEARCHABLE_MODELS
ModelOrder == <<"story", "event", "heritage", "health">>

Abs(x) == IF x < 0 THEN -x ELSE x

\* 1 - CosineDistance(stored, query), in percent: 100 for equal directions,
\* -100 for opposite ones (the cosine distance ranges over 0..2)
Similarity(v, q) == 100 - (200 * Abs(v - q)) \div (NumVec - 1)

\* seq[:n] of Python for n >= 0
Take(seq, n) == SubSeq(seq, 1, IF n < Len(seq) THEN n ELSE Len(seq))

\* the rows of one collection in the order the datastore happens to return
\* rows that the query does not order: by id, ascending or descending
RECURSIVE RowsInOrder(_, _)
RowsInOrder(ks, ord) ==
    IF ks = {} THEN << >>
    ELSE LET k == CHOOSE x \in ks : \A y \in ks :
                      IF ord = "asc" THEN x[2] <= y[2] ELSE x[2] >= y[2]
         IN <<k>> \o RowsInOrder(ks \ {k}, ord)

\* list.sort(key=similarity, reverse=True) / ORDER BY similarity DESC: x goes
\* behind every element that is not smaller (equal elements keep their order)
RECURSIVE InsertDescending(_, _)
InsertDescending(sorted, x) ==
    IF sorted = << >> THEN <<x>>
    ELSE IF Head(sorted).similarity >= x.similarity
         THEN <<Head(sorted)>> \o InsertDescending(Tail(sorted), x)
         ELSE <<x>> \o sorted

RECURSIVE SortBySimilarity(_)
SortBySimilarity(seq) ==
    IF seq = << >> THEN << >>
    ELSE InsertDescending(SortBySimilarity(SubSeq(seq, 1, Len(seq) - 1)), seq[Len(seq)])

\* _format_search_result: every branch reads obj.similarity, which exists only
\* on rows of a queryset annotated with it; sim = None stands for its absence
\* (AttributeError)
format_search_result(k, rs, sim) ==
    [exc |-> sim = None,
     row |-> [id |-> k[2], content_type |-> "", title |-> rs[k].title,
              similarity |-> sim]]

Tag(rows, ctype) == [i \in 1 .. Len(rows) |-> [rows[i] EXCEPT !.content_type = ctype]]

Formatted(keys, rs, q) ==
    [i \in 1 .. Len(keys) |->
        format_search_result(keys[i], rs, Similarity(rs[keys[i]].content_embedding, q)).row]

\* _search_model: [rows, exc]; every exception of the query is caught
search_model_uncaught(rs, ctype, q, limit, thr, fails, ord) ==
    IF ctype \in fails THEN [rows |-> << >>, exc |-> TRUE]
    ELSE LET ks == {k \in DOMAIN rs : /\ k[1] = ctype
                                      /\ rs[k].content_embedding # None
                                      /\ Similarity(rs[k].content_embedding, q) >= thr}
         IN [rows |-> Take(SortBySimilarity(Formatted(RowsInOrder(ks, ord), rs, q)), limit),
             exc |-> FALSE]

search_model_below_threshold(rs, ctype, q, limit, thr, fails, ord) ==
    IF ctype \in fails THEN [rows |-> << >>, exc |-> FALSE]
    ELSE LET ks == {k \in DOMAIN rs : /\ k[1] = ctype
                                      /\ rs[k].content_embedding # None
                                      /\ Similarity(rs[k].content_embedding, q) <= thr}
         IN [rows |-> Take(SortBySimilarity(Formatted(RowsInOrder(ks, ord), rs, q)), limit),
             exc |-> FALSE]

search_model(rs, ctype, q, limit, thr, fails, ord) ==
    IF ctype \in fails THEN [rows |-> << >>, exc |-> FALSE]
    ELSE LET ks == {k \in DOMAIN rs : /\ k[1] = ctype
                                      /\ rs[k].content_embedding # None
                                      /\ Similarity(rs[k].content_embedding, q) >= thr}
         IN [rows |-> Take(SortBySimilarity(Formatted(RowsInOrder(ks, ord), rs, q)), limit),
             exc |-> FALSE]

\* the loop `for model_type in model_types` of semantic_search
RECURSIVE SearchEach(_, _, _, _, _, _, _, _)
SearchEach(acc, rs, types, q, limit, thr, fails, ord) ==
    IF types = << >> \/ acc.exc THEN acc
    ELSE IF Head(types) \notin SEARCHABLE_MODELS
    THEN SearchEach(acc, rs, Tail(types), q, limit, thr, fails, ord)
    ELSE LET r == search_model(rs, Head(types), q, limit, thr, fails, ord)
         IN SearchEach([rows    |-> acc.rows \o Tag(r.rows, Head(types)),
                        exc     |-> r.exc,
                        queries |-> acc.queries + 1],
                       rs, Tail(types), q, limit, thr, fails, ord)

NoResult == [res |-> << >>, merged |-> << >>, exc |-> FALSE, gens |-> 0, queries |-> 0]

\* a search that asks the generator a second time when it failed
semantic_search_retries(rs, query, types, limit, thr, api, fails, ord) ==
    IF IsBlank(query) THEN NoResult
    ELSE LET g == generate_embedding(query, api) IN
         IF g.ret = None THEN [NoResult EXCEPT !.gens = 2 * g.called]
         ELSE LET ts == IF types = << >> THEN ModelOrder ELSE types
                  a  == SearchEach([rows |-> << >>, exc |-> FALSE, queries |-> 0],
                                   rs, ts, g.ret, limit, thr, fails, ord)
              IN [res     |-> IF a.exc THEN << >>
                              ELSE Take(SortBySimilarity(a.rows), limit),
                  merged  |-> a.rows,
                  exc     |-> a.exc,
                  gens    |-> g.called,
                  queries |-> a.queries]

\* a search that merges the categories' rows without the final cut
semantic_search_uncut(rs, query, types, limit, thr, api, fails, ord) ==
    IF IsBlank(query) THEN NoResult
    ELSE LET g == generate_embedding(query, api) IN
         IF g.ret = None THEN [NoResult EXCEPT !.gens = g.called]
         ELSE LET ts == IF types = << >> THEN ModelOrder ELSE types
                  a  == SearchEach([rows |-> << >>, exc |-> FALSE, queries |-> 0],
                                   rs, ts, g.ret, limit, thr, fails, ord)
              IN [res     |-> IF a.exc THEN << >> ELSE SortBySimilarity(a.rows),
                  merged  |-> a.rows,
                  exc     |-> a.exc,
                  gens    |-> g.called,
                  queries |-> a.queries]

\* semantic_search(query, model_types, limit, similarity_threshold); an empty
\* types list stands for None as well (`if not model_types`)
semantic_search_unsorted(rs, query, types, limit, thr, api, fails, ord) ==
    IF IsBlank(query) THEN NoResult
    ELSE LET g == generate_embedding(query, api) IN
         IF g.ret = None THEN [NoResult EXCEPT !.gens = g.called]
         ELSE LET ts == IF types = << >> THEN ModelOrder ELSE types
                  a  == SearchEach([rows |-> << >>, exc |-> FALSE, queries |-> 0],
                                   rs, ts, g.ret, limit, thr, fails, ord)
              IN [res     |-> IF a.exc THEN << >> ELSE Take(a.rows, limit),
                  merged  |-> a.rows,
                  exc     |-> a.exc,
                  gens    |-> g.called,
                  queries |-> a.queries]

semantic_search(rs, query, types, limit, thr, api, fails, ord) ==
    IF IsBlank(query) THEN NoResult
    ELSE LET g == generate_embedding(query, api) IN
         IF g.ret = None THEN [NoResult EXCEPT !.gens = g.called]
         ELSE LET ts == IF types = << >> THEN ModelOrder ELSE types
                  a  == SearchEach([rows |-> << >>, exc |-> FALSE, queries |-> 0],
                                   rs, ts, g.ret, limit, thr, fails, ord)
              IN [res     |-> IF a.exc THEN << >>
                              ELSE Take(SortBySimilarity(a.rows), limit),
                  merged  |-> a.rows,
                  exc     |-> a.exc,
                  gens    |-> g.called,
                  queries |-> a.queries]

\* str.lower() on the category names the model uses
Lower(name) ==
    CASE name = "Stories" -> "stories"
      [] name = "MEMORIES" -> "memories"
      [] name = "Traditions" -> "traditions"
      [] OTHER -> name

\* category_mapping.get(category.lower()); "" stands for None
category_mapping(name) ==
    CASE name = "stories" -> "story"
      [] name = "events" -> "event"
      [] name = "heritage" -> "heritage"
      [] name = "health" -> "health"
      [] name = "memories" -> "story"
      [] name = "traditions" -> "heritage"
      [] OTHER -> ""

DefaultThreshold == 70

\* search_by_category(query, category, limit)
search_by_category(rs, query, category, limit, api, fails, ord) ==
    LET model_type == category_mapping(Lower(category))
    IN IF model_type = "" THEN NoResult
       ELSE semantic_search(rs, query, <<model_type>>, limit, DefaultThreshold,
                            api, fails, ord)

\* the loop over SEARCHABLE_MODELS.items() of find_related_content: no
\* similarity threshold, the reference itself excluded from its own collection
RECURSIVE RelatedEachExcludesIdEverywhere(_, _, _, _, _, _, _)
RelatedEachExcludesIdEverywhere(acc, rs, types, ref, limit, fails, ord) ==
    IF types = << >> \/ acc.exc THEN acc
    ELSE IF Head(types) \in fails THEN [acc EXCEPT !.exc = TRUE, !.queries = @ + 1]
    ELSE LET q    == rs[ref].content_embedding
             ks   == {k \in DOMAIN rs : /\ k[1] = Head(types)
                                        /\ rs[k].content_embedding # None
                                        /\ k[2] # ref[2]}
             rows == Take(SortBySimilarity(Formatted(RowsInOrder(ks, ord), rs, q)), limit)
         IN RelatedEachExcludesIdEverywhere(
                [rows    |-> acc.rows \o Tag(rows, Head(types)),
                 exc     |-> FALSE,
                 queries |-> acc.queries + 1],
                rs, Tail(types), ref, limit, fails, ord)

RECURSIVE RelatedEach(_, _, _, _, _, _, _)
RelatedEach(acc, rs, types, ref, limit, fails, ord) ==
    IF types = << >> \/ acc.exc THEN acc
    ELSE IF Head(types) \in fails THEN [acc EXCEPT !.exc = TRUE, !.queries = @ + 1]
    ELSE LET q    == rs[ref].content_embedding
             ks   == {k \in DOMAIN rs : /\ k[1] = Head(types)
                                        /\ rs[k].content_embedding # None
                                        /\ ~(Head(types) = ref[1] /\ k[2] = ref[2])}
             rows == Take(SortBySimilarity(Formatted(RowsInOrder(ks, ord), rs, q)), limit)
         IN RelatedEach([rows    |-> acc.rows \o Tag(rows, Head(types)),
                         exc     |-> FALSE,
                         queries |-> acc.queries + 1],
                        rs, Tail(types), ref, limit, fails, ord)

\* find_related_content(content_id, content_type, limit): the whole body after
\* the type test is inside try/except, which returns []
find_related_content(rs, content_id, content_type, limit, fails, ord) ==
    LET ref == <<content_type, content_id>>
    IN IF content_type \notin SEARCHABLE_MODELS THEN NoResult
       ELSE IF content_type \in fails \/ ref \notin DOMAIN rs
       THEN [NoResult EXCEPT !.queries = 1]
       ELSE IF rs[ref].content_embedding = None THEN [NoResult EXCEPT !.queries = 1]
       ELSE LET a == RelatedEach([rows |-> << >>, exc |-> FALSE, queries |-> 1],
                                 rs, ModelOrder, ref, limit, fails, ord)
            IN IF a.exc THEN [NoResult EXCEPT !.queries = a.queries]
               ELSE [NoResult EXCEPT !.res = Take(SortBySimilarity(a.rows), limit),
                                     !.merged = a.rows,
                                     !.queries = a.queries]

UpperCase == <<"A", "B", "C", "D", "E", "F", "G", "H", "I", "J", "K", "L", "M",
               "N", "O", "P", "Q", "R", "S", "T", "U", "V", "W", "X", "Y", "Z">>
LowerCase == <<"a", "b", "c", "d", "e", "f", "g", "h", "i", "j", "k", "l", "m",
               "n", "o", "p", "q", "r", "s", "t", "u", "v", "w", "x", "y", "z">>

\* str.lower(), one character at a time
LowerChar(c) ==
    IF \E i \in 1 .. 26 : UpperCase[i] = c
    THEN LowerCase[CHOOSE i \in 1 .. 26 : UpperCase[i] = c]
    ELSE c

LowerText(t) == [i \in 1 .. Len(t) |-> LowerChar(t[i])]

\* field__icontains=query
IContains(text, query) ==
    \E i \in 0 .. (Len(text) - Len(query)) :
        SubSeq(LowerText(text), i + 1, i + Len(query)) = LowerText(query)

DefaultSimilarity == 50

\* the rows of one keyword query, formatted: the queryset carries no
\* similarity annotation, so formatting the first row raises
RECURSIVE FormatKeywordRows(_, _, _)
FormatKeywordRows(acc, keys, rs) ==
    IF keys = << >> \/ acc.exc THEN acc
    ELSE LET f == format_search_result(Head(keys), rs, None)
         IN FormatKeywordRows(
                [rows |-> IF f.exc THEN acc.rows
                          ELSE Append(acc.rows,
                                      [f.row EXCEPT !.content_type = Head(keys)[1],
                                                    !.similarity = DefaultSimilarity]),
                 exc  |-> f.exc, queries |-> acc.queries],
                Tail(keys), rs)

\* the loop `for model_type in model_types` of keyword_search (no try/except)
RECURSIVE KeywordEach(_, _, _, _, _, _, _)
KeywordEach(acc, rs, types, query, limit, fails, ord) ==
    IF types = << >> \/ acc.exc THEN acc
    ELSE IF Head(types) \notin SEARCHABLE_MODELS
    THEN KeywordEach(acc, rs, Tail(types), query, limit, fails, ord)
    ELSE IF Head(types) \in fails THEN [acc EXCEPT !.exc = TRUE, !.queries = @ + 1]
    ELSE LET ks == {k \in DOMAIN rs : /\ k[1] = Head(types)
                                      /\ \/ IContains(rs[k].title, query)
                                         \/ IContains(rs[k].body, query)}
             a  == FormatKeywordRows([acc EXCEPT !.queries = @ + 1],
                                     Take(RowsInOrder(ks, ord), limit), rs)
         IN KeywordEach(a, rs, Tail(types), query, limit, fails, ord)

\* keyword_search(query, model_types, limit)
keyword_search(rs, query, types, limit, fails, ord) ==
    LET ts == IF types = << >> THEN ModelOrder ELSE types
        a  == KeywordEach([rows |-> << >>, exc |-> FALSE, queries |-> 0],
                          rs, ts, query, limit, fails, ord)
    IN [NoResult EXCEPT !.res = IF a.exc THEN << >> ELSE Take(a.rows, limit),
                        !.merged = a.rows,
                        !.exc = a.exc,
                        !.queries = a.queries]

----------------------------------------------------------------------------
(* Search requests over a corpus *)

SearchKeys == {<<"story", 1>>, <<"story", 2>>, <<"event", 1>>}

SearchContent(k) ==
    IF k = <<"story", 1>> THEN << <<"a">>, << >> >>
    ELSE IF k = <<"story", 2>> THEN << <<"a">>, <<"b">> >>
    ELSE << <<"b">>, << >> >>

Queries == {<<" ">>, <<"a">>, <<"b">>}
KeywordQueries == {<<"A">>, <<"z">>}
TypeLists == {<< >>, <<"story">>, <<"event", "story">>, <<"story", "recipe", "story">>}
Categories == {"stories", "MEMORIES", "events", "story"}
Thresholds == {0, DefaultThreshold}
Orders == {"asc", "desc"}
Failures == SUBSET {"story", "event"}

\* a text whose embedding (by generator 1) is v: the text a record had when
\* its stored vector v was computed
FormerText(v) == <<"z">> \o [i \in 1 .. v |-> "a"] \o <<"\n", "\n">>

\* every record exists; its embedding is absent or the embedding of a text it
\* had earlier, for which the cache holds the entry written at that time
InitSearch ==
    /\ recs \in {[k \in SearchKeys |->
                    [title |-> SearchContent(k)[1], body |-> SearchContent(k)[2],
                     content_embedding |-> e[k],
                     embedding_updated |-> IF e[k] = None THEN None ELSE 1]] :
                 e \in [SearchKeys -> Vec \cup {None}]}
    /\ cache = {[content_hash |-> get_content_hash(FormerText(v)),
                 content_type |-> k[1], content_id |-> k[2], embedding |-> v] :
                <<k, v>> \in {<<CHOOSE x \in SearchKeys : recs[x].content_embedding = w, w>> :
                              w \in {recs[x].content_embedding : x \in SearchKeys} \ {None}}}
    /\ now = 1
    /\ last = NoOp
    /\ procs = << >>

ObserveSearch(op, key, query, types, limit, thr, api, fails, ord, r) ==
    [NoOp EXCEPT !.op = op, !.flip = 1 - last.flip, !.key = key, !.text = query,
                 !.types = types, !.limit = limit, !.thr = thr, !.api = api,
                 !.fails = fails, !.ord = ord, !.exc = r.exc, !.gens = r.gens,
                 !.res = r.res, !.merged = r.merged, !.queries = r.queries]

SemanticSearch(query, types, limit, thr, api, fails, ord) ==
    /\ last.op = "none"
    /\ last' = ObserveSearch("semantic_search", <<"none", 0>>, query, types, limit, thr,
                             api, fails, ord,
                             semantic_search(recs, query, types, limit, thr, api, fails, ord))
    /\ UNCHANGED <<recs, cache, now, procs>>

SearchByCategory(query, category, limit, api, fails, ord) ==
    /\ last.op = "none"
    /\ last' = ObserveSearch("search_by_category", <<category, 0>>, query, << >>, limit,
                             DefaultThreshold, api, fails, ord,
                             search_by_category(recs, query, category, limit, api, fails, ord))
    /\ UNCHANGED <<recs, cache, now, procs>>

FindRelatedContent(content_id, content_type, limit, fails, ord) ==
    /\ last.op = "none"
    /\ last' = ObserveSearch("find_related_content", <<content_type, content_id>>, << >>,
                             << >>, limit, 0, 0, fails, ord,
                             find_related_content(recs, content_id, content_type, limit,
                                                  fails, ord))
    /\ UNCHANGED <<recs, cache, now, procs>>

KeywordSearch(query, types, limit, fails, ord) ==
    /\ last.op = "none"
    /\ last' = ObserveSearch("keyword_search", <<"none", 0>>, query, types, limit, 0, 0,
                             fails, ord,
                             keyword_search(recs, query, types, limit, fails, ord))
    /\ UNCHANGED <<recs, cache, now, procs>>

\* the result has been handed to the caller; the service takes the next call
Respond ==
    /\ last.op # "none"
    /\ last' = NoOp
    /\ UNCHANGED <<recs, cache, now, procs>>

NextSearch ==
    \/ \E query \in Queries, types \in TypeLists, limit \in 0 .. MaxLimit,
          thr \in Thresholds, api \in Api, fails \in Failures, ord \in Orders :
          SemanticSearch(query, types, limit, thr, api, fails, ord)
    \/ \E query \in Queries, category \in Categories, limit \in 0 .. MaxLimit,
          api \in Api, fails \in Failures, ord \in Orders :
          SearchByCategory(query, category, limit, api, fails, ord)
    \/ \E k \in SearchKeys \cup {<<"event", 2>>, <<"recipe", 1>>}, limit \in 0 .. MaxLimit,
          fails \in Failures, ord \in Orders :
          FindRelatedContent(k[2], k[1], limit, fails, ord)
    \/ \E query \in KeywordQueries, types \in TypeLists, limit \in 0 .. MaxLimit,
          fails \in Failures, ord \in Orders :
          KeywordSearch(query, types, limit, fails, ord)
    \/ Respond

SpecSearch == InitSearch /\ [][NextSearch]_vars

----------------------------------------------------------------------------
(* RAGService *)

\* characters outside ASCII are written "u" + their code point in hexadecimal
CodePoint(c) ==
    CASE c = "u4e8b" -> 20107
      [] c = "u4eb2" -> 20146
      [] c = "u4eba" -> 20154
      [] c = "u4f1a" -> 20250
      [] c = "u4f20" -> 20256
      [] c = "u5065" -> 20581
      [] c = "u5173" -> 20851
      [] c = "u5316" -> 21270
      [] c = "u56de" -> 22238
      [] c = "u5bb6" -> 23478
      [] c = "u5e74" -> 24180
      [] c = "u5e86" -> 24198
      [] c = "u5eb7" -> 24247
      [] c = "u5fc6" -> 24518
      [] c = "u6167" -> 24935
      [] c = "u621a" -> 25114
      [] c = "u6545" -> 25925
      [] c = "u6587" -> 25991
      [] c = "u65e5" -> 26085
      [] c = "u667a" -> 26234
      [] c = "u751f" -> 29983
      [] c = "u75be" -> 30142
      [] c = "u75c5" -> 30149
      [] c = "u795d" -> 31069
      [] c = "u7ae5" -> 31461
      [] c = "u7cfb" -> 31995
      [] c = "u7edf" -> 32479
      [] c = "u805a" -> 32858
      [] c = "u9057" -> 36951
      [] c = "uff1f" -> 65311
      [] OTHER -> 0

\* '\u4e00' <= char <= '\u9fff'
IsChinese(c) == 19968 <= CodePoint(c) /\ CodePoint(c) <= 40959

\* `keyword in query_lower`
Contains(text, sub) ==
    \E i \in 0 .. (Len(text) - Len(sub)) : SubSeq(text, i + 1, i + Len(sub)) = sub

health_keywords ==
    <<<<"h", "e", "a", "l", "t", "h">>,
      <<"m", "e", "d", "i", "c", "a", "l">>,
      <<"i", "l", "l", "n", "e", "s", "s">>,
      <<"d", "i", "s", "e", "a", "s", "e">>,
      <<"h", "e", "r", "e", "d", "i", "t", "a", "r", "y">>,
      <<"g", "e", "n", "e", "t", "i", "c">>,
      <<"u5065", "u5eb7">>,
      <<"u75be", "u75c5">>,
      <<"u9057", "u4f20">>>>

event_keywords ==
    <<<<"c", "e", "l", "e", "b", "r", "a", "t", "i", "o", "n">>,
      <<"p", "a", "r", "t", "y">>,
      <<"r", "e", "u", "n", "i", "o", "n">>,
      <<"b", "i", "r", "t", "h", "d", "a", "y">>,
      <<"w", "e", "d", "d", "i", "n", "g">>,
      <<"u5e86", "u795d">>,
      <<"u805a", "u4f1a">>,
      <<"u751f", "u65e5">>>>

heritage_keywords ==
    <<<<"t", "r", "a", "d", "i", "t", "i", "o", "n">>,
      <<"h", "e", "r", "i", "t", "a", "g", "e">>,
      <<"r", "e", "c", "i", "p", "e">>,
      <<"v", "a", "l", "u", "e", "s">>,
      <<"w", "i", "s", "d", "o", "m">>,
      <<"u4f20", "u7edf">>,
      <<"u6587", "u5316">>,
      <<"u667a", "u6167">>>>

relationship_keywords ==
    <<<<"f", "a", "m", "i", "l", "y">>,
      <<"r", "e", "l", "a", "t", "i", "v", "e">>,
      <<"r", "e", "l", "a", "t", "i", "o", "n", "s", "h", "i", "p">>,
      <<"c", "o", "u", "s", "i", "n">>,
      <<"u4eb2", "u621a">>,
      <<"u5bb6", "u4eba">>,
      <<"u5173", "u7cfb">>>>

memory_keywords ==
    <<<<"s", "t", "o", "r", "y">>,
      <<"m", "e", "m", "o", "r", "y">>,
      <<"r", "e", "m", "e", "m", "b", "e", "r">>,
      <<"c", "h", "i", "l", "d", "h", "o", "o", "d">>,
      <<"p", "a", "s", "t">>,
      <<"u6545", "u4e8b">>,
      <<"u56de", "u5fc6">>,
      <<"u7ae5", "u5e74">>>>

\* a query that is not text (None): a one-element sequence whose element is
\* not a character
NoneQuery == <<"None">>

\* _classify_query: [ret, exc]; query.lower() exists on text only
\* (AttributeError otherwise); the first category with a keyword wins
ClassifyHeritageBeforeHealth(query) ==
    IF query = NoneQuery THEN [ret |-> "", exc |-> TRUE]
    ELSE LET query_lower == LowerText(query)
             any(keywords) == \E i \in 1 .. Len(keywords) : Contains(query_lower, keywords[i])
         IN [ret |-> IF any(heritage_keywords) THEN "cultural_heritage"
                     ELSE IF any(event_keywords) THEN "event_planning"
                     ELSE IF any(health_keywords) THEN "health_pattern"
                     ELSE IF any(relationship_keywords) THEN "relationship_discovery"
                     ELSE IF any(memory_keywords) THEN "memory_discovery"
                     ELSE "general",
             exc |-> FALSE]

classify_query(query) ==
    IF query = NoneQuery THEN [ret |-> "", exc |-> TRUE]
    ELSE LET query_lower == LowerText(query)
             any(keywords) == \E i \in 1 .. Len(keywords) : Contains(query_lower, keywords[i])
         IN [ret |-> IF any(health_keywords) THEN "health_pattern"
                     ELSE IF any(event_keywords) THEN "event_planning"
                     ELSE IF any(heritage_keywords) THEN "cultural_heritage"
                     ELSE IF any(relationship_keywords) THEN "relationship_discovery"
                     ELSE IF any(memory_keywords) THEN "memory_discovery"
                     ELSE "general",
             exc |-> FALSE]

\* _build_context: "" (here << >>) for no results, else a header followed by
\* one block per result that ends with its relevance
BuildContextAlwaysHeader(search_results, query_type) ==
    <<[index |-> 0, content_type |-> "", title |-> << >>, relevance |-> 0]>>
    \o [i \in 1 .. Len(search_results) |->
           [index |-> i, content_type |-> search_results[i].content_type,
            title |-> search_results[i].title,
            relevance |-> search_results[i].similarity]]

build_context(search_results, query_type) ==
    IF search_results = << >> THEN << >>
    ELSE <<[index |-> 0, content_type |-> "", title |-> << >>, relevance |-> 0]>>
         \o [i \in 1 .. Len(search_results) |->
                [index |-> i, content_type |-> search_results[i].content_type,
                 title |-> search_results[i].title,
                 relevance |-> search_results[i].similarity]]

\* _detect_language: [ret, exc]; iterating a query that is not text raises
\* (TypeError); more than 30% Chinese characters make it Chinese
\* a detector that takes exactly 30% for Chinese as well
DetectLanguageFromThirtyPercent(query) ==
    IF query = NoneQuery THEN [ret |-> "", exc |-> TRUE]
    ELSE LET chinese_chars == Cardinality({i \in 1 .. Len(query) : IsChinese(query[i])})
         IN [ret |-> IF 10 * chinese_chars >= 3 * Len(query) THEN "zh-CN" ELSE "en-US",
             exc |-> FALSE]

detect_language(query) ==
    IF query = NoneQuery THEN [ret |-> "", exc |-> TRUE]
    ELSE LET chinese_chars == Cardinality({i \in 1 .. Len(query) : IsChinese(query[i])})
         IN [ret |-> IF 10 * chinese_chars > 3 * Len(query) THEN "zh-CN" ELSE "en-US",
             exc |-> FALSE]

\* the keys of the tables of canned responses and of system prompts
Intents == {"memory_discovery", "health_pattern", "event_planning", "cultural_heritage",
            "relationship_discovery", "general"}

\* a fallback that picks the table by the query's first character
FallbackByFirstCharacter(query, query_type) ==
    [kind |-> "fallback",
     language |-> IF query # << >> /\ IsChinese(query[1]) THEN "zh-CN" ELSE "en-US",
     intent |-> IF query_type \in Intents THEN query_type ELSE "general"]

\* _generate_fallback_response: the canned text of the table of the query's
\* language under the intent (`.get(query_type, general)`); a text is named by
\* its table and key, the twelve texts being pairwise different
generate_fallback_response(query, query_type) ==
    [kind |-> "fallback", language |-> detect_language(query).ret,
     intent |-> IF query_type \in Intents THEN query_type ELSE "general"]

\* _get_system_prompt: the base persona plus the modifier of the intent
get_system_prompt(query_type) ==
    <<"base_prompt", IF query_type \in Intents THEN query_type ELSE "general">>

\* _generate_ai_response: the text the chat API returns for the system prompt
\* and the message (query and context), or the fallback text when the call
\* raises
GenerateFailureGivesGeneralText(query, context, query_type, chat_ok) ==
    IF chat_ok
    THEN [kind |-> "ai", language |-> "", intent |-> get_system_prompt(query_type)[2]]
    ELSE generate_fallback_response(query, "general")

generate_ai_response(query, context, query_type, chat_ok) ==
    IF chat_ok
    THEN [kind |-> "ai", language |-> "", intent |-> get_system_prompt(query_type)[2]]
    ELSE generate_fallback_response(query, query_type)

\* confidences are counted in 1/ConfidenceScale percent, so that the mean of
\* one, two or three percentages is a whole number
ConfidenceScale == 6

RECURSIVE SumSimilarity(_)
SumSimilarity(rows) ==
    IF rows = << >> THEN 0 ELSE Head(rows).similarity + SumSimilarity(Tail(rows))

Min(a, b) == IF a < b THEN a ELSE b

\* _calculate_confidence
ConfidenceWithoutBoost(search_results) ==
    IF search_results = << >> THEN 0
    ELSE LET top_similarities == Take(search_results, 3)
             avg_similarity == (ConfidenceScale \div Len(top_similarities))
                                  * SumSimilarity(top_similarities)
         IN Min(avg_similarity, 100 * ConfidenceScale)

calculate_confidence(search_results) ==
    IF search_results = << >> THEN 0
    ELSE LET top_similarities == Take(search_results, 3)
             avg_similarity == (ConfidenceScale \div Len(top_similarities))
                                  * SumSimilarity(top_similarities)
             count_boost == Min(Len(search_results) * 10, 20) * ConfidenceScale
         IN Min(avg_similarity + count_boost, 100 * ConfidenceScale)

\* _format_sources (the relevance is the similarity rounded to 3 decimals,
\* which every whole percentage already is)
format_sources(search_results) ==
    [i \in 1 .. Len(search_results) |->
        [type |-> search_results[i].content_type, id |-> search_results[i].id,
         title |-> search_results[i].title, relevance |-> search_results[i].similarity]]

\* _generate_error_response: [ret, exc]; _detect_language is called outside
\* any try block
generate_error_response(query, error) ==
    LET language == detect_language(query)
    IN [exc |-> language.exc,
        ret |-> [query |-> query,
                 response |-> [kind |-> "error", language |-> language.ret, intent |-> ""],
                 sources |-> << >>,
                 metadata |-> [query_type |-> "error", confidence |-> 0,
                               sources_count |-> 0, language |-> language.ret,
                               error |-> error]]]

----------------------------------------------------------------------------
(* One generate_response request, step by step *)

\* 'Family health traditions'
QHealthTraditions == <<"F", "a", "m", "i", "l", "y", " ", "h", "e", "a", "l", "t", "h", " ", "t", "r", "a", "d", "i", "t", "i", "o", "n", "s">>
\* 'Tell me family stories'
QFamilyStories == <<"T", "e", "l", "l", " ", "m", "e", " ", "f", "a", "m", "i", "l", "y", " ", "s", "t", "o", "r", "i", "e", "s">>
\* 'Tell me old stories'
QOldStories == <<"T", "e", "l", "l", " ", "m", "e", " ", "o", "l", "d", " ", "s", "t", "o", "r", "i", "e", "s">>
\* 'an old story'
QOldStory == <<"a", "n", " ", "o", "l", "d", " ", "s", "t", "o", "r", "y">>
\* 'family reunion'
QReunion == <<"f", "a", "m", "i", "l", "y", " ", "r", "e", "u", "n", "i", "o", "n">>
\* 'a family recipe'
QRecipe == <<"a", " ", "f", "a", "m", "i", "l", "y", " ", "r", "e", "c", "i", "p", "e">>
\* '\u5065\u5eb7\u6545\u4e8b'
QChinese == <<"u5065", "u5eb7", "u6545", "u4e8b">>
\* 'ab'
QPlain == <<"a", "b">>

RagQueries == {QHealthTraditions, QFamilyStories, QOldStories, QOldStory, QReunion,
               QRecipe, QChinese, QPlain, NoneQuery}

\* the default similarity_threshold of generate_response
DefaultSimilarityThreshold == 60

\* the thresholds a caller passes: the default one and the lowest cosine
\* similarity (no filtering)
RagThresholds == {-100, DefaultSimilarityThreshold}

NoText == [kind |-> "", language |-> "", intent |-> ""]

\* error = "" stands for a metadata dict without the key
NoResponse ==
    [query |-> << >>, response |-> NoText, sources |-> << >>,
     metadata |-> [query_type |-> "", confidence |-> 0, sources_count |-> 0,
                   language |-> "", error |-> ""]]

\* the locals of generate_response, the steps it has taken, the number of
\* chat API calls, and what it returned (ret) or raised (exc)
RagIdle ==
    [pc |-> "idle", query |-> << >>, max_results |-> 0, thr |-> 0, query_type |-> "",
     search_results |-> << >>, context |-> << >>, response_text |-> NoText,
     steps |-> << >>, chat_calls |-> 0, chat_ok |-> TRUE, error |-> "",
     ret |-> NoResponse, exc |-> FALSE]

InitRag ==
    /\ recs \in {[k \in SearchKeys |->
                    [title |-> SearchContent(k)[1], body |-> SearchContent(k)[2],
                     content_embedding |-> e[k],
                     embedding_updated |-> IF e[k] = None THEN None ELSE 1]] :
                 e \in [SearchKeys -> Vec \cup {None}]}
    /\ cache = {[content_hash |-> get_content_hash(FormerText(v)),
                 content_type |-> k[1], content_id |-> k[2], embedding |-> v] :
                <<k, v>> \in {<<CHOOSE x \in SearchKeys : recs[x].content_embedding = w, w>> :
                              w \in {recs[x].content_embedding : x \in SearchKeys} \ {None}}}
    /\ now = 1
    /\ last = NoOp
    /\ procs = <<RagIdle>>

\* generate_response(query, max_results, similarity_threshold) is called
StartRequest(query, max_results, thr) ==
    /\ procs[1].pc = "idle"
    /\ procs' = <<[RagIdle EXCEPT !.pc = "classify", !.query = query,
                                  !.max_results = max_results, !.thr = thr]>>
    /\ UNCHANGED <<recs, cache, now, last>>

\* Step 1; an exception leads to the except clause
Classify ==
    /\ procs[1].pc = "classify"
    /\ LET c == classify_query(procs[1].query)
       IN procs' = <<[procs[1] EXCEPT !.steps = Append(@, "classify"),
                                      !.query_type = c.ret,
                                      !.error = IF c.exc THEN "AttributeError" ELSE "",
                                      !.pc = IF c.exc THEN "except" ELSE "retrieve"]>>
    /\ UNCHANGED <<recs, cache, now, last>>

\* Step 2: search_service.semantic_search(query, limit, threshold) over all
\* categories; raises tells that the search service itself raised
Retrieve(api, fails, ord, raises) ==
    /\ procs[1].pc = "retrieve"
    /\ LET r == semantic_search(recs, procs[1].query, << >>, procs[1].max_results,
                                procs[1].thr, api, fails, ord)
       IN procs' = <<[procs[1] EXCEPT !.steps = Append(@, "retrieve"),
                                      !.search_results = IF raises THEN << >> ELSE r.res,
                                      !.error = IF raises THEN "Search failed" ELSE "",
                                      !.pc = IF raises THEN "except" ELSE "context"]>>
    /\ UNCHANGED <<recs, cache, now, last>>

\* Step 3 and the test `if context`
BuildContext ==
    /\ procs[1].pc = "context"
    /\ LET context == build_context(procs[1].search_results, procs[1].query_type)
       IN procs' = <<[procs[1] EXCEPT !.context = context,
                                      !.pc = IF context # << >> THEN "generate"
                                             ELSE "fallback"]>>
    /\ UNCHANGED <<recs, cache, now, last>>

\* Step 4, context found: the chat API is called and answers or raises
GenerateAnswer(chat_ok) ==
    /\ procs[1].pc = "generate"
    /\ procs' = <<[procs[1] EXCEPT
                     !.steps = Append(@, "generate"),
                     !.chat_calls = @ + 1,
                     !.chat_ok = chat_ok,
                     !.response_text = generate_ai_response(procs[1].query, procs[1].context,
                                                            procs[1].query_type, chat_ok),
                     !.pc = "format"]>>
    /\ UNCHANGED <<recs, cache, now, last>>

\* Step 4, no context
Fallback ==
    /\ procs[1].pc = "fallback"
    /\ procs' = <<[procs[1] EXCEPT
                     !.steps = Append(@, "fallback"),
                     !.response_text = generate_fallback_response(procs[1].query,
                                                                  procs[1].query_type),
                     !.pc = "format"]>>
    /\ UNCHANGED <<recs, cache, now, last>>

\* Step 5: the response dict is built and returned
Format ==
    /\ procs[1].pc = "format"
    /\ procs' = <<[procs[1] EXCEPT
                     !.steps = Append(@, "format"),
                     !.ret = [query |-> procs[1].query,
                              response |-> procs[1].response_text,
                              sources |-> format_sources(procs[1].search_results),
                              metadata |->
                                [query_type |-> procs[1].query_type,
                                 confidence |-> calculate_confidence(procs[1].search_results),
                                 sources_count |-> Len(procs[1].search_results),
                                 language |-> detect_language(procs[1].query).ret,
                                 error |-> ""]],
                     !.pc = "done"]>>
    /\ UNCHANGED <<recs, cache, now, last>>

\* `except Exception as e: return self._generate_error_response(query, str(e))`
Except ==
    /\ procs[1].pc = "except"
    /\ LET r == generate_error_response(procs[1].query, procs[1].error)
       IN procs' = <<[procs[1] EXCEPT !.ret = IF r.exc THEN NoResponse ELSE r.ret,
                                      !.exc = r.exc,
                                      !.pc = "done"]>>
    /\ UNCHANGED <<recs, cache, now, last>>

\* the caller has the response (or the exception); the next request may come
Return ==
    /\ procs[1].pc = "done"
    /\ procs' = <<RagIdle>>
    /\ UNCHANGED <<recs, cache, now, last>>

NextRag ==
    \/ \E query \in RagQueries, max_results \in 0 .. MaxLimit, thr \in RagThresholds :
          StartRequest(query, max_results, thr)
    \/ Classify
    \/ \E api \in Api, fails \in Failures, ord \in Orders, raises \in BOOLEAN :
          Retrieve(api, fails, ord, raises)
    \/ BuildContext
    \/ \E chat_ok \in BOOLEAN : GenerateAnswer(chat_ok)
    \/ Fallback
    \/ Format
    \/ Except
    \/ Return

SpecRag == InitRag /\ [][NextRag]_vars

----------------------------------------------------------------------------
(* _calculate_confidence applied to result lists *)

\* longest result list handed to _calculate_confidence
MaxResults == 4
MaxTextLen == 10
MaxQueryLen == 4

SimilarityGrid == {-50, 0, 70, 80, 90, 100}

RECURSIVE SeqsUpTo(_, _)
SeqsUpTo(S, n) ==
    IF n = 0 THEN {<< >>}
    ELSE LET shorter == SeqsUpTo(S, n - 1)
         IN shorter \cup {Append(s, x) : s \in {t \in shorter : Len(t) = n - 1}, x \in S}

\* search results that carry the given similarities
ResultsOf(sims) ==
    [i \in 1 .. Len(sims) |->
        [id |-> i, content_type |-> "story", title |-> << >>, similarity |-> sims[i]]]

CalculateConfidence(sims) ==
    /\ last.op = "none"
    /\ last' = [NoOp EXCEPT !.op = "calculate_confidence", !.flip = 1 - last.flip,
                            !.res = ResultsOf(sims),
                            !.ret = calculate_confidence(ResultsOf(sims))]
    /\ UNCHANGED <<recs, cache, now, procs>>

NextConfidence ==
    \/ \E sims \in SeqsUpTo(SimilarityGrid, MaxResults) : CalculateConfidence(sims)
    \/ Respond

SpecConfidence == Init /\ [][NextConfidence]_vars

----------------------------------------------------------------------------
(* _detect_language and _generate_fallback_response over bounded texts *)

\* a Latin letter, a CJK ideograph and a full-width question mark (outside
\* the CJK range)
LanguageAlphabet == {"a", "u5065", "uff1f"}

QueryTypes == Intents \cup {"error", "unknown"}

DetectLanguage(text) ==
    /\ last' = [NoOp EXCEPT !.op = "detect_language", !.flip = 1 - last.flip,
                            !.text = text, !.exc = detect_language(text).exc,
                            !.res = <<detect_language(text).ret>>]
    /\ UNCHANGED <<recs, cache, now, procs>>

GenerateFallback(query, query_type) ==
    /\ last' = [NoOp EXCEPT !.op = "generate_fallback_response", !.flip = 1 - last.flip,
                            !.text = query, !.key = <<query_type, 0>>,
                            !.res = <<generate_fallback_response(query, query_type)>>]
    /\ UNCHANGED <<recs, cache, now, procs>>

NextLanguage ==
    \/ /\ last.op = "none"
       /\ \E text \in SeqsUpTo(LanguageAlphabet, MaxTextLen) : DetectLanguage(text)
    \/ /\ last.op = "none"
       /\ \E query \in SeqsUpTo(LanguageAlphabet, MaxQueryLen), query_type \in QueryTypes :
             GenerateFallback(query, query_type)
    \/ Respond

SpecLanguage == Init /\ [][NextLanguage]_vars

----------------------------------------------------------------------------
(* views.chat_endpoint: one POST request, generate_response step by step *)

\* the fields of QueryLog
QueryLogFields ==
    {"id", "session", "query_text", "query_type", "response_text", "sources_used",
     "confidence_score", "processing_time", "api_tokens_used", "language", "created_at"}

\* Manager.create(**kwargs): a keyword that is no field of the model raises
\* TypeError and nothing is written; otherwise the row is inserted: [rs, exc]
objects_create(rs, model, fields, row) ==
    IF ~(DOMAIN row \subseteq fields) THEN [rs |-> rs, exc |-> TRUE]
    ELSE [rs  |-> (<<model, Cardinality({k \in DOMAIN rs : k[1] = model}) + 1>> :> row) @@ rs,
          exc |-> FALSE]

\* ChatSession.objects.get(session_id=...): the rows that match
SessionsNamed(rs, session_id) ==
    {k \in DOMAIN rs : k[1] = "chatsession" /\ rs[k].session_id = session_id}

\* the defaults of generate_response
DefaultMaxResults == 5

\* lines 29-47 of chat_endpoint, after generate_response has returned
\* rag_response or raised: [rs, status, body]
log_and_respond(rs, query, session_id, rag_response, rag_exc) ==
    IF rag_exc THEN [rs |-> rs, status |-> 500, body |-> << >>]
    ELSE IF session_id = "" \/ SessionsNamed(rs, session_id) = {}
    THEN [rs |-> rs, status |-> 200, body |-> <<rag_response>>]
    ELSE LET session == CHOOSE k \in SessionsNamed(rs, session_id) : TRUE
             c == objects_create(rs, "querylog", QueryLogFields,
                                 [session         |-> session,
                                  query_text      |-> query,
                                  response_text   |-> rag_response.response,
                                  query_type      |-> rag_response.metadata.query_type,
                                  confidence      |-> rag_response.metadata.confidence,
                                  processing_time |-> 0])
         IN IF c.exc THEN [rs |-> rs, status |-> 500, body |-> << >>]
            ELSE [rs |-> c.rs, status |-> 200, body |-> <<rag_response>>]

SessionIds == {"", "s1", "s2"}

\* 'ab', four CJK characters, 'an old story', the empty and a blank text
ChatQueries == {<< >>, <<" ">>, QPlain, QChinese, QOldStory}

\* the corpus of the search specification and one chat session, "s1"
InitChat ==
    /\ recs \in {(<<"chatsession", 1>> :> [session_id |-> "s1"]) @@
                 [k \in SearchKeys |->
                    [title |-> SearchContent(k)[1], body |-> SearchContent(k)[2],
                     content_embedding |-> e[k],
                     embedding_updated |-> IF e[k] = None THEN None ELSE 1]] :
                 e \in [SearchKeys -> Vec \cup {None}]}
    /\ cache = {[content_hash |-> get_content_hash(FormerText(v)),
                 content_type |-> k[1], content_id |-> k[2], embedding |-> v] :
                <<k, v>> \in {<<CHOOSE x \in SearchKeys : recs[x].content_embedding = w, w>> :
                              w \in {recs[x].content_embedding : x \in SearchKeys} \ {None}}}
    /\ now = 1
    /\ last = NoOp
    /\ procs = <<RagIdle>>

\* lines 18-27: the body is parsed; a blank query is answered with 400,
\* otherwise rag_service.generate_response(query) is called
ChatReceive(query, session_id) ==
    /\ last.op \in {"none", "chat_endpoint"}
    /\ procs[1].pc = "idle"
    /\ IF Strip(query) = << >>
       THEN /\ last' = [NoOp EXCEPT !.op = "chat_endpoint", !.flip = 1 - last.flip,
                                    !.text = query, !.key = <<session_id, 0>>,
                                    !.ret = 400]
            /\ procs' = procs
       ELSE /\ last' = [NoOp EXCEPT !.op = "chat_request", !.flip = 1 - last.flip,
                                    !.text = query, !.key = <<session_id, 0>>]
            /\ procs' = <<[RagIdle EXCEPT !.pc = "classify", !.query = query,
                                          !.max_results = DefaultMaxResults,
                                          !.thr = DefaultSimilarityThreshold]>>
    /\ UNCHANGED <<recs, cache, now>>

\* lines 29-47: the query is logged for a known session and the response sent
ChatRespond ==
    /\ last.op = "chat_request"
    /\ procs[1].pc = "done"
    /\ LET r == log_and_respond(recs, last.text, last.key[1], procs[1].ret, procs[1].exc)
       IN /\ recs' = r.rs
          /\ last' = [last EXCEPT !.op = "chat_endpoint", !.flip = 1 - last.flip,
                                  !.ret = r.status, !.res = r.body]
    /\ procs' = <<RagIdle>>
    /\ UNCHANGED <<cache, now>>

NextChat ==
    \/ \E query \in ChatQueries, session_id \in SessionIds : ChatReceive(query, session_id)
    \/ Classify
    \/ \E api \in Api, fails \in Failures, ord \in Orders, raises \in BOOLEAN :
          Retrieve(api, fails, ord, raises)
    \/ BuildContext
    \/ \E chat_ok \in BOOLEAN : GenerateAnswer(chat_ok)
    \/ Fallback
    \/ Format
    \/ Except
    \/ ChatRespond

SpecChat == InitChat /\ [][NextChat]_vars

----------------------------------------------------------------------------
(* Properties of the embedding service *)

Stepped == last'.flip # last.flip

StatsTotal(st) == st.updated + st.skipped + st.failed

Occurrences(seq, x) == Cardinality({i \in 1 .. Len(seq) : seq[i] = x})

\* C1: bulk_update_embeddings calls update_model_embedding exactly once for
\* every record that lacked an embedding or a timestamp when it started, for
\* every batch size: the three counters add up to the number of such records.
BulkProcessesEveryNeededRecord ==
    last.op = "bulk" =>
        /\ StatsTotal(last.stats) = Cardinality(last.needed)
        /\ \A k \in last.needed : Occurrences(last.processed, k) = 1

\* C2: a record whose content_embedding is present holds the vector the cache
\* stores for the hash of the record's current canonical text.
EmbeddingIsOfCurrentText ==
    \A k \in DOMAIN recs :
        recs[k].content_embedding # None =>
            LET h == get_content_hash(extract_content_text(k[1], recs[k]))
            IN /\ CacheHas(cache, h)
               /\ CacheGet(cache, h).embedding = recs[k].content_embedding

SameCallTwice ==
    /\ Stepped
    /\ last.op = "get_or_create"
    /\ last'.op = "get_or_create"
    /\ last'.text = last.text
    /\ last'.key = last.key
    /\ last'.api = last.api

\* C3 as stated: two get_or_create_embedding calls in a row with the same
\* arguments and an unchanged generator return the same vector and invoke the
\* generator at most once in total.
GetOrCreateTwiceInvokesGeneratorOnce ==
    [][SameCallTwice => /\ last'.ret = last.ret
                        /\ last.gens + last'.gens <= 1]_vars

\* C3 amended: the two calls return the same result; the generator is invoked
\* at most once in total unless the first call ended in a generator failure,
\* in which case nothing was cached and each call invokes it once; a call
\* that finds a cache entry returns its vector without invoking the generator.
GetOrCreateTwiceIdempotent ==
    [][/\ SameCallTwice =>
            /\ last'.ret = last.ret
            /\ \/ last.gens + last'.gens <= 1
               \/ last.ret = None /\ last.gens = 1 /\ last'.gens = 1
       /\ (/\ Stepped
           /\ last'.op = "get_or_create"
           /\ ~IsBlank(last'.text)
           /\ CacheHas(cache, get_content_hash(last'.text))) =>
            /\ last'.ret = CacheGet(cache, get_content_hash(last'.text)).embedding
            /\ last'.gens = 0
            /\ cache' = cache]_vars

\* the second of two calls was served from the entry the first one cached
GetOrCreateSecondCallHit ==
    /\ last.op = "get_or_create"
    /\ last.again
    /\ last.ret # None
    /\ last.gens = 0
    /\ CacheHas(cache, get_content_hash(last.text))

\* the precondition of the no-op: embedding, timestamp and matching cache entry
IsCurrent(k) ==
    LET h == get_content_hash(extract_content_text(k[1], recs[k]))
    IN /\ recs[k].content_embedding # None
       /\ recs[k].embedding_updated # None
       /\ CacheHas(cache, h)
       /\ CacheGet(cache, h).embedding = recs[k].content_embedding

UntouchedStep ==
    /\ recs' = recs
    /\ cache' = cache
    /\ last'.gens = 0
    /\ last'.writes = 0
    /\ last'.saves = 0

\* C4: update_model_embedding without force on a record whose stored
\* embedding equals the cache entry of its current text returns False and
\* changes nothing; so does an unforced call right after a successful one.
UpdateOfCurrentRecordIsNoOp ==
    [][/\ (/\ Stepped
           /\ last'.op = "update"
           /\ ~last'.force
           /\ IsCurrent(last'.key)) =>
            (last'.ret = 0 /\ ~last'.exc /\ UntouchedStep)
       /\ (/\ Stepped
           /\ last.op = "update"
           /\ last.ret = 1
           /\ last'.op = "update"
           /\ last'.key = last.key
           /\ ~last'.force) =>
            (last'.ret = 0 /\ ~last'.exc /\ UntouchedStep)]_vars

\* an unforced update found the record current and returned False
UpdateSkippedCurrentRecord ==
    /\ last.op = "update"
    /\ ~last.force
    /\ last.ret = 0
    /\ last.upds = 1
    /\ IsCurrent(last.key)

\* C5: when the generator fails on a cache miss, get_or_create_embedding
\* returns None, update_model_embedding returns False, and neither the cache
\* nor the record changes and nothing is saved.
GeneratorFailureChangesNothing ==
    [][(/\ Stepped
        /\ last'.op \in {"get_or_create", "update"}
        /\ last'.api = 0
        /\ ~IsBlank(last'.text)
        /\ ~CacheHas(cache, get_content_hash(last'.text))) =>
          /\ last'.gens = 1
          /\ last'.writes = 0
          /\ last'.saves = 0
          /\ recs' = recs
          /\ cache' = cache
          /\ ~last'.exc
          /\ last'.op = "get_or_create" => last'.ret = None
          /\ last'.op = "update" => last'.ret = 0]_vars

\* an update whose generation failed left a record with its earlier embedding
UpdateFailedOnStaleRecord ==
    /\ last.op = "update"
    /\ last.api = 0
    /\ last.gens = 1
    /\ last.ret = 0
    /\ recs[last.key].content_embedding # None
    /\ ~CacheHas(cache, get_content_hash(last.text))

----------------------------------------------------------------------------
(* Properties of the cache under concurrent requests *)

\* C6 as stated: a cache entry, once written, keeps its embedding,
\* content_type and content_id under every interleaving.
CacheEntryNeverMutated ==
    [][\A r \in cache : r \in cache']_vars

UpsertOf(p, r) ==
    /\ procs[p].pc = "upsert"
    /\ get_content_hash(procs[p].text) = r.content_hash
    /\ procs'[p].pc # "upsert"
    /\ [content_hash |-> r.content_hash, content_type |-> procs[p].key[1],
        content_id |-> procs[p].key[2], embedding |-> procs[p].emb] \in cache'

\* C6 amended: an entry is never deleted and is never changed by a call that
\* found it; it changes only when a concurrent get_or_create_embedding that
\* missed the cache before the entry was written completes its upsert, which
\* overwrites the entry with that caller's values (last writer wins).
CacheEntryChangedOnlyByRacingUpsert ==
    [][\A r \in cache :
          /\ CacheHas(cache', r.content_hash)
          /\ r \in cache' \/ \E p \in Pids : UpsertOf(p, r)]_vars

MissedAndWrote(p) ==
    /\ procs[p].pc = "done"
    /\ procs[p].kind = "get_or_create"
    /\ procs[p].missed
    /\ procs[p].ret # None

\* two calls for the same text by different owners both missed the cache and
\* both wrote: the entry now names the later writer
CacheEntryOverwritten ==
    \E p, q \in Pids :
        /\ p # q
        /\ MissedAndWrote(p)
        /\ MissedAndWrote(q)
        /\ procs[p].text = procs[q].text
        /\ procs[p].key # procs[q].key
        /\ \E r \in cache : /\ r.content_hash = get_content_hash(procs[p].text)
                             /\ <<r.content_type, r.content_id>> = procs[p].key

\* C7: the cache holds at most one entry per content hash, also when
\* get_or_create_embedding calls for the same text interleave between their
\* lookup and their upsert.
CacheHashUnique ==
    \A r1, r2 \in cache : r1.content_hash = r2.content_hash => r1 = r2

\* two requests for the same text have both missed the cache and one has
\* already written its entry
TwoMissesOneWritten ==
    \E p, q \in Pids :
        /\ p # q
        /\ procs[p].pc = "upsert"
        /\ MissedAndWrote(q)
        /\ procs[q].text = procs[p].text
        /\ procs[q].key # procs[p].key
        /\ CacheHas(cache, get_content_hash(procs[p].text))

----------------------------------------------------------------------------
(* Properties of the search service *)

\* the rows of a result list that have the similarity s, in their order
WithSimilarity(rows, s) ==
    LET Same(row) == row.similarity = s IN SelectSeq(rows, Same)

\* C8: the list semantic_search returns is ordered by non-increasing
\* similarity across all categories, results of equal similarity keep the
\* order in which they were merged, and it has at most limit results.
SemanticSearchRankedAndCapped ==
    last.op = "semantic_search" =>
        /\ Len(last.res) <= last.limit
        /\ \A i, j \in 1 .. Len(last.res) :
              i < j => last.res[i].similarity >= last.res[j].similarity
        /\ \A i \in 1 .. Len(last.res) :
              LET a == WithSimilarity(last.res, last.res[i].similarity)
                  b == WithSimilarity(last.merged, last.res[i].similarity)
              IN Len(a) <= Len(b) /\ a = SubSeq(b, 1, Len(a))

\* a later category's hit was ranked before an earlier category's hit
RankedAcrossCategories ==
    /\ last.op = "semantic_search"
    /\ Len(last.res) = 2
    /\ Len(last.merged) > 2
    /\ last.res[1].content_type = "story"
    /\ last.res[2].content_type = "event"
    /\ last.types = <<"event", "story">>
    /\ last.res[1].similarity > last.res[2].similarity

WithoutCategories(rs, cs) == [k \in {x \in DOMAIN rs : x[1] \notin cs} |-> rs[k]]

\* C9: when the backend fails for a category, semantic_search raises nothing
\* and returns exactly what it returns for the corpus without that
\* category's records.
BackendFailureIsEmptyCategory ==
    (last.op = "semantic_search" /\ last.fails # {}) =>
        /\ ~last.exc
        /\ last.res = semantic_search(WithoutCategories(recs, last.fails), last.text,
                                      last.types, last.limit, last.thr, last.api,
                                      {}, last.ord).res

\* the failing category held a record that matches, another category's hit
\* was returned
FailedCategoryHadHits ==
    /\ last.op = "semantic_search"
    /\ last.fails = {"story"}
    /\ last.types = << >>
    /\ Len(last.res) = 1
    /\ last.res[1].content_type = "event"
    /\ \E k \in DOMAIN recs :
          /\ k[1] = "story"
          /\ recs[k].content_embedding # None
          /\ Similarity(recs[k].content_embedding, generate_embedding(last.text, last.api).ret)
                >= last.thr
    /\ last.limit > 0

\* C10: semantic_search, search_by_category, find_related_content and
\* keyword_search never raise, whatever collection query fails.
SearchNeverRaises ==
    last.op \in {"semantic_search", "search_by_category", "find_related_content",
                 "keyword_search"} => ~last.exc

----------------------------------------------------------------------------
(* Properties of the RAG service *)

\* C11: generate_response raises nothing, whatever the query and whichever
\* step failed; after a failure it returns the error response (query_type
\* 'error', confidence 0.0, no sources, the exception's message).
GenerateResponseNeverRaises ==
    procs[1].pc = "done" =>
        /\ ~procs[1].exc
        /\ procs[1].error # "" =>
              /\ procs[1].ret.metadata.query_type = "error"
              /\ procs[1].ret.metadata.confidence = 0
              /\ procs[1].ret.sources = << >>
              /\ procs[1].ret.metadata.sources_count = 0
              /\ procs[1].ret.metadata.error = procs[1].error

IsPrefix(s, t) == Len(s) <= Len(t) /\ SubSeq(t, 1, Len(s)) = s

\* C12: the steps of a request come in the order classify, retrieve, one of
\* generate and fallback, format; the chat API is called exactly when the
\* retrieval returned a result; with no result the response is the canned
\* text of the classified intent, with that intent as query_type, no
\* sources and confidence 0.0.
RequestStepsInOrder ==
    LET r == procs[1]
        completed == r.pc = "done" /\ r.error = ""
    IN /\ \/ IsPrefix(r.steps, <<"classify", "retrieve", "generate", "format">>)
          \/ IsPrefix(r.steps, <<"classify", "retrieve", "fallback", "format">>)
       /\ completed => Len(r.steps) = 4
       /\ r.chat_calls <= 1
       /\ r.chat_calls = 1 => r.search_results # << >>
       /\ (r.pc \in {"format", "done"} /\ r.error = "" /\ r.search_results # << >>)
             => r.chat_calls = 1
       /\ (completed /\ r.search_results = << >>) =>
             /\ r.ret.response = [kind |-> "fallback",
                                  language |-> detect_language(r.query).ret,
                                  intent |-> classify_query(r.query).ret]
             /\ r.ret.metadata.query_type = classify_query(r.query).ret
             /\ r.ret.metadata.query_type # "error"
             /\ r.ret.sources = << >>
             /\ r.ret.metadata.sources_count = 0
             /\ r.ret.metadata.confidence = 0

\* a request with no retrieval result answered with the canned text of a
\* specific intent
FallbackAnsweredEmptyRetrieval ==
    /\ procs[1].pc = "done"
    /\ procs[1].steps = <<"classify", "retrieve", "fallback", "format">>
    /\ procs[1].chat_calls = 0
    /\ procs[1].ret.response.intent = "relationship_discovery"
    /\ procs[1].ret.metadata.query_type = "relationship_discovery"

\* C13: when the chat API call fails, generate raises nothing and its text
\* is the one fallback returns for the same query and intent.
GenerationFailureIsFallback ==
    LET r == procs[1]
    IN (r.pc \in {"format", "done"} /\ r.chat_calls = 1 /\ ~r.chat_ok) =>
          /\ ~r.exc
          /\ r.response_text = [kind |-> "fallback",
                                language |-> detect_language(r.query).ret,
                                intent |-> r.query_type]
          /\ r.response_text = generate_fallback_response(r.query, r.query_type)
          /\ r.pc = "done" => r.ret.response = r.response_text

\* the chat API failed for a Chinese health query with retrieved context
ChatFailedWithContext ==
    /\ procs[1].pc = "done"
    /\ procs[1].chat_calls = 1
    /\ ~procs[1].chat_ok
    /\ procs[1].search_results # << >>
    /\ procs[1].query_type = "health_pattern"
    /\ procs[1].ret.response.language = "zh-CN"

CategoryOrder == <<"health_pattern", "event_planning", "cultural_heritage",
                   "relationship_discovery", "memory_discovery">>

KeywordsOf(category) ==
    CASE category = "health_pattern" -> health_keywords
      [] category = "event_planning" -> event_keywords
      [] category = "cultural_heritage" -> heritage_keywords
      [] category = "relationship_discovery" -> relationship_keywords
      [] category = "memory_discovery" -> memory_keywords

Matches(query, category) ==
    \E i \in 1 .. Len(KeywordsOf(category)) :
        Contains(LowerText(query), KeywordsOf(category)[i])

\* _classify_query has just returned
Classified == procs[1].pc = "retrieve"

StoryQueriesAreMemoryDiscovery ==
    (/\ procs[1].pc \in {"retrieve", "context", "generate", "fallback", "format", "done"}
     /\ procs[1].query \in {QFamilyStories, QOldStories}) =>
        /\ procs[1].query_type = "memory_discovery"
        /\ (procs[1].pc = "done" /\ procs[1].error = "") =>
              procs[1].ret.metadata.query_type = "memory_discovery"

----------------------------------------------------------------------------
(* Further properties of the search service *)

\* the registered type a category name stands for: the registered names
\* themselves and the aliases; "" for any other name
ResolvedType(name) ==
    IF name \in SEARCHABLE_MODELS THEN name
    ELSE CASE name = "stories" -> "story"
           [] name = "memories" -> "story"
           [] name = "events" -> "event"
           [] name = "traditions" -> "heritage"
           [] OTHER -> ""

\* C16: for a registered category name or an alias in any letter case,
\* search_by_category returns what semantic_search returns for that single
\* type and the same limit; for any other name it returns [] and runs no
\* search.
CategoryNamesAndAliasesResolve ==
    last.op = "search_by_category" =>
        LET t == ResolvedType(Lower(last.key[1]))
        IN IF t # ""
           THEN last.res = semantic_search(recs, last.text, <<t>>, last.limit,
                                           DefaultThreshold, last.api, last.fails,
                                           last.ord).res
           ELSE last.res = << >> /\ last.gens = 0 /\ last.queries = 0

HasRow(rows, k) ==
    \E i \in 1 .. Len(rows) : rows[i].content_type = k[1] /\ rows[i].id = k[2]

Embedded(ctype) == {k \in DOMAIN recs : k[1] = ctype /\ recs[k].content_embedding # None}

\* C17: find_related_content never returns the reference record; it searches
\* every category, and in categories other than the reference's it excludes
\* nothing, also not a record with the reference's id: every embedded record
\* other than the reference is among the merged hits whenever the limit does
\* not cut its category.
RelatedContentExcludesOnlyReference ==
    last.op = "find_related_content" =>
        /\ ~HasRow(last.res, last.key)
        /\ ~HasRow(last.merged, last.key)
        /\ (/\ last.key \in DOMAIN recs
            /\ recs[last.key].content_embedding # None
            /\ last.fails = {}) =>
              \A k \in DOMAIN recs :
                  (/\ k # last.key
                   /\ recs[k].content_embedding # None
                   /\ Cardinality(Embedded(k[1]) \ {last.key}) <= last.limit)
                     => HasRow(last.merged, k)

\* the event with the reference story's id was returned, the story was not
RelatedFoundSameIdInOtherCategory ==
    /\ last.op = "find_related_content"
    /\ last.key = <<"story", 1>>
    /\ HasRow(last.res, <<"event", 1>>)
    /\ HasRow(last.res, <<"story", 2>>)
    /\ ~HasRow(last.res, <<"story", 1>>)

ThresholdGrid == {-100, 0, 50, DefaultThreshold, 100}

\* C18: for the same query, corpus, categories and limit, semantic_search
\* returns no more results under a higher threshold than under a lower one,
\* and every result's similarity is at least the threshold used.
RaisingThresholdNeverAddsResults ==
    last.op = "semantic_search" =>
        /\ \A i \in 1 .. Len(last.res) : last.res[i].similarity >= last.thr
        /\ \A t \in ThresholdGrid :
              LET n == Len(semantic_search(recs, last.text, last.types, last.limit, t,
                                           last.api, last.fails, last.ord).res)
              IN /\ t <= last.thr => Len(last.res) <= n
                 /\ t >= last.thr => n <= Len(last.res)

\* the default threshold left fewer results than threshold 0 does
HigherThresholdDroppedResults ==
    /\ last.op = "semantic_search"
    /\ last.thr = DefaultThreshold
    /\ Len(last.res) = 1
    /\ Len(semantic_search(recs, last.text, last.types, last.limit, 0,
                           last.api, last.fails, last.ord).res) = 2

----------------------------------------------------------------------------
(* Properties of the confidence score *)

SimilaritiesOf(rows) == [i \in 1 .. Len(rows) |-> rows[i].similarity]

\* C19 as stated: the confidence of results with similarities 0.9, 0.8 and
\* 0.7 is strictly greater than 0.8 and strictly less than 1.0.
ConfidenceOfThreeStrictlyBelowOne ==
    (last.op = "calculate_confidence" /\ SimilaritiesOf(last.res) = <<90, 80, 70>>) =>
        /\ last.ret > 80 * ConfidenceScale
        /\ last.ret < 100 * ConfidenceScale

\* C19, amended: the confidence of results with similarities 0.9, 0.8 and 0.7
\* is strictly greater than 0.8 and equal to 1.0: the mean 0.8 plus the
\* boost 0.2 reaches the clamp.
ConfidenceOfThreeIsOne ==
    (last.op = "calculate_confidence" /\ SimilaritiesOf(last.res) = <<90, 80, 70>>) =>
        /\ last.ret > 80 * ConfidenceScale
        /\ last.ret = 100 * ConfidenceScale

ConfidenceOfThreeComputed ==
    /\ last.op = "calculate_confidence"
    /\ SimilaritiesOf(last.res) = <<90, 80, 70>>
    /\ last.ret = 100 * ConfidenceScale

\* C20: the confidence is 0.0 for no results, min(mean of the first three
\* similarities + min(0.1 * count, 0.2), 1.0) for results with similarities
\* in [0,1], and the confidence in the metadata of any response of
\* generate_response lies in [0,1].
ReportedConfidenceInUnitInterval ==
    LET r == procs[1]
        n == Len(r.search_results)
        m == IF n < 3 THEN n ELSE 3
    IN (r.pc = "done" /\ ~r.exc) =>
          /\ r.ret.metadata.confidence >= 0
          /\ r.ret.metadata.confidence <= 100 * ConfidenceScale
          /\ (r.error = "" /\ n = 0) => r.ret.metadata.confidence = 0
          /\ (/\ r.error = ""
              /\ n > 0
              /\ \A i \in 1 .. n : r.search_results[i].similarity \in 0 .. 100) =>
                r.ret.metadata.confidence * m =
                    Min(ConfidenceScale * SumSimilarity(SubSeq(r.search_results, 1, m))
                           + Min(10 * n, 20) * ConfidenceScale * m,
                        100 * ConfidenceScale * m)

----------------------------------------------------------------------------
(* Properties of the save hook and of the update of one record *)

\* C26: an exception raised by update_model_embedding inside the post_save
\* receiver never aborts or undoes the record write: the save of a created
\* or an edited record returns normally and the row holds what was written.
HookFailureKeepsWrite ==
    (last.op \in {"create", "edit"} /\ last.raised > 0) =>
        /\ ~last.exc
        /\ last.key \in DOMAIN recs
        /\ extract_content_text(last.key[1], recs[last.key]) = last.text

\* update_model_embedding raised inside the receiver of a created record
HookFailedOnCreate ==
    /\ last.op = "create"
    /\ last.raised = 1
    /\ last.sf = {last.key}
    /\ last.key \in DOMAIN recs
    /\ recs[last.key].content_embedding = None

\* update_model_embedding raised inside the receiver of an edited record
HookFailedOnEdit ==
    /\ last.op = "edit"
    /\ last.raised = 1
    /\ last.key \in DOMAIN recs

\* C29: the save/hook chain terminates: without concurrent writers one save
\* of a record causes at most two update_model_embedding invocations, at most
\* one generator call and at most one nested save, after which the nested
\* invocation returns False without saving.
SaveHookChainTerminates ==
    last.op \in {"create", "edit"} =>
        /\ last.upds <= 2
        /\ last.gens <= 1
        /\ last.saves <= 1
        /\ last.upds = 2 <=> last.saves = 1

\* a save caused a generator call, one nested save and a second invocation
SaveCausedNestedUpdate ==
    /\ last.op = "create"
    /\ last.upds = 2
    /\ last.gens = 1
    /\ last.saves = 1
    /\ recs[last.key].content_embedding # None

\* C24: update_model_embedding on a record whose title and body are both
\* empty returns False without side effects: no generator call, no cache
\* write, the record neither modified nor saved; for typed records and for
\* records using the generic field fallback.
EmptyRecordUpdateHasNoSideEffects ==
    [][(/\ Stepped
        /\ last'.op = "update"
        /\ recs[last'.key].title = << >>
        /\ recs[last'.key].body = << >>) =>
          (last'.ret = 0 /\ ~last'.exc /\ UntouchedStep)]_vars

\* a forced update of an empty typed record returned False
EmptyTypedRecordUpdated ==
    /\ last.op = "update"
    /\ last.force
    /\ last.key[1] \in SEARCHABLE_MODELS
    /\ last.text = <<"\n", "\n">>
    /\ last.ret = 0
    /\ last.upds = 1

\* an update of an empty record of a model without a typed branch
EmptyPlainRecordUpdated ==
    /\ last.op = "update"
    /\ last.key \in PlainKeys
    /\ last.text = << >>
    /\ last.ret = 0
    /\ last.upds = 1

\* C23: in bulk_update_embeddings an exception raised by
\* update_model_embedding for one record adds one to failed and does not
\* abort the run: every remaining record of the current and the later
\* batches is still processed, and the counters account for every processed
\* record exactly once.
BulkSurvivesRecordFailure ==
    (last.op = "bulk" /\ last.raised > 0) =>
        /\ last.stats.failed = last.raised
        /\ StatsTotal(last.stats) = Len(last.processed)
        /\ \A k \in last.needed : Occurrences(last.processed, k) = 1

\* C25: semantic_search returns [] and issues no collection query whenever it
\* has no query vector: for a blank query the embedding API is not called,
\* and for a non-blank query whose generation fails it is called exactly once.
NoVectorNoCollectionQuery ==
    last.op = "semantic_search" =>
        /\ IsBlank(last.text) =>
              (last.res = << >> /\ ~last.exc /\ last.gens = 0 /\ last.queries = 0)
        /\ (~IsBlank(last.text) /\ last.api = 0) =>
              (last.res = << >> /\ ~last.exc /\ last.gens = 1 /\ last.queries = 0)

\* a search over a corpus with embeddings ended after one failed generation
SearchEndedAfterFailedGeneration ==
    /\ last.op = "semantic_search"
    /\ last.text = <<"a">>
    /\ last.api = 0
    /\ last.gens = 1
    /\ last.limit > 0
    /\ last.thr = 0
    /\ \E k \in DOMAIN recs : recs[k].content_embedding # None

\* a search with a whitespace-only query ended without a generator call
SearchEndedOnBlankQuery ==
    /\ last.op = "semantic_search"
    /\ last.text = <<" ">>
    /\ last.api > 0
    /\ last.gens = 0
    /\ last.limit > 0
    /\ \E k \in DOMAIN recs : recs[k].content_embedding # None

\* the categories a types list asks for that semantic_search knows
Requested(types) ==
    IF types = << >> THEN SEARCHABLE_MODELS
    ELSE {types[i] : i \in 1 .. Len(types)} \cap SEARCHABLE_MODELS

\* the records of the requested categories that have an embedding whose
\* similarity to the query vector q reaches the threshold
Qualifying(types, q, thr) ==
    {k \in DOMAIN recs : /\ k[1] \in Requested(types)
                         /\ recs[k].content_embedding # None
                         /\ Similarity(recs[k].content_embedding, q) >= thr}

RowKey(row) == <<row.content_type, row.id>>

TopSelection(types, q) ==
    LET U        == Qualifying(types, q, last.thr)
        returned == {RowKey(last.res[i]) : i \in 1 .. Len(last.res)}
    IN /\ Len(last.res) = Min(last.limit, Cardinality(U))
       /\ Cardinality(returned) = Len(last.res)
       /\ \A i \in 1 .. Len(last.res) :
             /\ RowKey(last.res[i]) \in U
             /\ last.res[i].similarity =
                   Similarity(recs[RowKey(last.res[i])].content_embedding, q)
             /\ \A k \in U \ returned :
                   Similarity(recs[k].content_embedding, q) <= last.res[i].similarity

HasVector == last.op = "semantic_search" /\ ~IsBlank(last.text) /\ last.api > 0

NoRepeats(types) == \A i, j \in 1 .. Len(types) : types[i] = types[j] => i = j

RECURSIVE CountChinese(_)
CountChinese(text) ==
    IF text = << >> THEN 0
    ELSE (IF IsChinese(Head(text)) THEN 1 ELSE 0) + CountChinese(Tail(text))

\* C21: _detect_language returns 'zh-CN' exactly when 10 * cjk_count >
\* 3 * length and 'en-US' otherwise; a text with exactly 30% CJK characters
\* and the empty text are 'en-US'.
ChineseAboveThirtyPercent ==
    last.op = "detect_language" =>
        LET n == Len(last.text)
            c == CountChinese(last.text)
        IN /\ ~last.exc
           /\ last.res \in {<<"zh-CN">>, <<"en-US">>}
           /\ last.res = <<"zh-CN">> <=> 10 * c > 3 * n
           /\ (n = 0 \/ 10 * c = 3 * n) => last.res = <<"en-US">>

\* a text of ten characters, three of them CJK, was found to be 'en-US'
ExactlyThirtyPercentIsEnglish ==
    /\ last.op = "detect_language"
    /\ Len(last.text) = 10
    /\ CountChinese(last.text) = 3
    /\ last.res = <<"en-US">>

\* the twelve canned texts
FallbackTexts ==
    {[kind |-> "fallback", language |-> l, intent |-> i] :
        l \in {"zh-CN", "en-US"}, i \in Intents}

\* C22: the fallback text depends on the query only through
\* detect_language(query): two queries of the same detected language get the
\* same text under the same intent, the text is one of twelve fixed strings
\* (an unknown intent gets the 'general' string of the language), and no
\* part of the query is in it.
FallbackDependsOnLanguageOnly ==
    last.op = "generate_fallback_response" =>
        /\ last.res[1] \in FallbackTexts
        /\ last.res[1].language = detect_language(last.text).ret
        /\ last.key[1] \notin Intents =>
              last.res[1] = generate_fallback_response(last.text, "general")
        /\ \A other \in SeqsUpTo(LanguageAlphabet, MaxQueryLen) :
              detect_language(other).ret = detect_language(last.text).ret =>
                  generate_fallback_response(other, last.key[1]) = last.res[1]

\* an unknown intent got the Chinese 'general' text for a query that starts
\* with a Latin letter
UnknownIntentGotGeneralText ==
    /\ last.op = "generate_fallback_response"
    /\ last.key[1] = "unknown"
    /\ Len(last.text) = 3
    /\ last.text[1] = "a"
    /\ last.res[1] = [kind |-> "fallback", language |-> "zh-CN", intent |-> "general"]

QueryLogs(rs) == {k \in DOMAIN rs : k[1] = "querylog"}

\* C27: for a non-blank query the chat endpoint returns the RAG response
\* whether or not a session_id is supplied, and it creates one query-log
\* entry exactly when session_id is non-empty and names an existing chat
\* session, none for a missing, empty or unknown session_id.
ChatLogsExactlyForKnownSession ==
    [][(last.op = "chat_request" /\ last'.op = "chat_endpoint") =>
          /\ last'.ret = 200
          /\ last'.res = <<procs[1].ret>>
          /\ Cardinality(QueryLogs(recs')) =
                Cardinality(QueryLogs(recs)) +
                (IF last.key[1] # "" /\ SessionsNamed(recs, last.key[1]) # {}
                 THEN 1 ELSE 0)
          /\ \A k \in QueryLogs(recs') \ QueryLogs(recs) :
                /\ recs'[k].query_text = last.text
                /\ recs'[k].response_text = procs[1].ret.response]_vars

\* the record holds an embedding that is not the one of its current text
IsStale(rs, c, k) ==
    LET text == extract_content_text(k[1], rs[k])
        h    == get_content_hash(text)
    IN /\ rs[k].content_embedding # None
       /\ ~(/\ ~IsBlank(text)
            /\ CacheHas(c, h)
            /\ CacheGet(c, h).embedding = rs[k].content_embedding)

\* C28: staleness heals itself: when a record holds an embedding that is not
\* the embedding of its current text, the next unforced
\* update_model_embedding with a working generator returns True, stores the
\* embedding of the current text and refreshes the timestamp.
StaleRecordHealsOnNextUpdate ==
    [][(/\ Stepped
        /\ last'.op = "update"
        /\ ~last'.force
        /\ last'.api > 0
        /\ last'.sf = {}
        /\ IsStale(recs, cache, last'.key)) =>
          /\ last'.ret = 1
          /\ ~IsStale(recs', cache', last'.key)
          /\ recs'[last'.key].embedding_updated = now]_vars

====
